---- MODULE Spec2Model ----
(***************************************************************************)
(* Model of the eWeLink platform's window-covering emulation               *)
(* (src/src/lib/commonApi.ts, "Blind Stuff") and of the websocket client   *)
(* (src/unnamed/part_000, class WebSocketClient).                          *)
(*                                                                         *)
(* Conventions                                                             *)
(*  - Time is the wall clock Date.now() in milliseconds, relative to the   *)
(*    moment the platform was constructed.  Timers fire exactly when they  *)
(*    are due (the clock never passes a due timer); host commands and      *)
(*    pushes may be handled at any instant the clock reaches.              *)
(*  - `this` inside the `function () {...}` callbacks of commonApi.ts is   *)
(*    read as the platform object, which is what every such callback uses  *)
(*    it for.                                                              *)
(*  - Calibration values are whole seconds, for which the floating point   *)
(*    arithmetic of the source is exact.                                   *)
(*  - service.setCharacteristic(TargetPosition, v) runs the 'set' handler  *)
(*    registered in configureAccessory synchronously, i.e. it is a call of *)
(*    setTargetPosition(accessory, v, callback).                           *)
(***************************************************************************)
EXTENDS Integers, Sequences, FiniteSets, TLC

(***************************************************************************)
(* Bounds of the model.                                                    *)
(***************************************************************************)
MaxTime == 1100       \* the clock stops here
MaxEvents == 2
TickStep == 100       \* largest step of the clock when no timer is due sooner
TargetStep == 50      \* requested targets are the multiples of this in 0..100
MaxDuration == 2      \* durationUp, durationDown in 1..MaxDuration (seconds)
MaxMargin == 0        \* durationBMU, durationBMD in 0..MaxMargin (seconds)
MaxOverdrive == 1     \* fullOverdrive in 0..MaxOverdrive (seconds)
FineStep == 5         \* step of the clock of the motion model while events arrive
MaxFineTime == 20     \* the motion model takes events up to this time, and
                      \* again once no timer is left
MaxSocketTime == 11000 \* clock bound of the connection model
SocketStep == 2500    \* step of the clock of the connection model
MaxHbInterval == 1        \* largest hbInterval (seconds) of a login response
MaxSignals == 4       \* transport close / error events per behaviour
MaxCallers == 3       \* callers that issue one request each
MaxRequestTime == 2   \* clock bound of the request model (milliseconds)
MaxCacheTime == 1500  \* clock bound of the cache model
CacheStep == 250      \* step of the clock of the cache model
MaxCacheSets == 3     \* calls of Cache.set per behaviour
MaxApiCalls == 2      \* calls of getDeviceStatus / updateDeviceStatus per behaviour
MaxStatusTime == 6000 \* no call is made after this time
StatusStep == 2500    \* step of the clock of the device status model
MaxStatusCloses == 1   \* transport closes per behaviour of the device status model

(***************************************************************************)
(* Program constants.                                                      *)
(***************************************************************************)
MovingUp == 0
MovingDown == 1
Stopped == 2
Error == 3
PollInterval == 100
DeferDelay == 1
StopDelay == 10
autoReconnectInterval == 5000
CLOSE_NORMAL == 1000
defaultCacheDuration == 500
RetryDelay == 5000


Channels == {0, 1}
Targets == {p \in 0..100 : p % TargetStep = 0}
Readings == [Channels -> {"on", "off"}]
NoReading == [c \in Channels |-> "none"]

VARIABLES
    now,        \* Date.now()
    context,    \* accessory.context of the covering
    switches,   \* devicesFromApi.get(deviceId).params.switches (shared array)
    timers,     \* pending setTimeout / setInterval callbacks, in creation order
    events,     \* number of external inputs handled so far
    lastOp,     \* the handler that ran last, its input, the branch it took and
                \* the relay patches it passed to apiClient.updateDeviceStatus
    fault       \* history: both-relays-off patches issued since a reading with
                \* both relays on was handled (tracked until the next input)

\* WebSocketClient: connection
VARIABLES
    url,              \* this.url, "none" while undefined
    instance,         \* this.instance: the url it was created for, whether the
                      \* client's listeners are attached, the transport's state
    socketOpen,       \* this.socketOpen
    pendingReconnect, \* this.pendingReconnect
    pingInterval,     \* whether this.pingInterval holds a timer handle
    livePings,        \* number of heartbeat intervals that are running
    loginPending,     \* the login request of onopen() awaits its response
    wsTimers,         \* pending reconnect timers: [due, set]
    signals,          \* number of transport close / error events so far
    wsOp              \* the event handled last and what its handler did

\* WebSocketClient: request correlation
VARIABLES
    pending,          \* requests awaiting a response: requestId -> caller
    calls,            \* per caller: state, requestId, message on the wire and
                      \* the message that resolved it
    reqOp             \* the event handled last

\* Cache (the deviceStatusMap of the WebSocketClient)
VARIABLES
    cacheMap,         \* this.cacheMap: key -> value, Undefined when not held
    timerMap,         \* this.timerMap: key -> id of the timer armed last, 0
                      \* when the key has never been set
    cacheTimers,      \* timers that are armed: [id, key, due, value, reset];
                      \* value and reset note what the arming set stored and
                      \* whether it replaced an entry that was still held
    timerCount,       \* number of timers created so far
    cacheOp           \* the cache operation run last and what it did

\* WebSocketClient: getDeviceStatus / updateDeviceStatus
VARIABLES
    apiCalls,         \* per call: what was asked, how far it got, how many
                      \* requests it sent and how its promise settled
    apiTimers,        \* pending sleep / retry timers: [call, kind, due]
    apiOp,            \* the step taken last
    updates           \* relay patches handed to updateDeviceStatus by the
                      \* covering, in the order of the calls: the array as it
                      \* was at the call, when its pause ends, and the array
                      \* that was transmitted (NoReading until then)

\* Platform: handlers of the host's get / set calls on switches and fans
VARIABLES
    hostCalls,        \* per call: the handler, its argument, whether the call
                      \* came from the host or from a push update, whether its
                      \* promise is pending, and the invocations of its callback
    characteristicOn, \* value of Characteristic.On of the switch accessory
    fanSwitches,      \* devicesFromApi.get(deviceId).params.switches of the fan
    fanActive,        \* value of Characteristic.Active of the fan accessory
    hostOp            \* the step taken last: how many times it ran the 'set'
                      \* handler and how many updates it passed to apiClient

covVars == <<context, switches, timers, events, lastOp, fault>>
sockVars == <<url, instance, socketOpen, pendingReconnect, pingInterval,
              livePings, loginPending, wsTimers, signals, wsOp>>
reqVars == <<pending, calls, reqOp>>
cacheVars == <<cacheMap, timerMap, cacheTimers, timerCount, cacheOp>>
apiVars == <<apiCalls, apiTimers, apiOp, updates>>
hostVars == <<hostCalls, characteristicOn, fanSwitches, fanActive, hostOp>>
vars == <<now, context, switches, timers, events, lastOp, fault,
          url, instance, socketOpen, pendingReconnect, pingInterval,
          livePings, loginPending, wsTimers, signals, wsOp,
          pending, calls, reqOp,
          cacheMap, timerMap, cacheTimers, timerCount, cacheOp,
          apiCalls, apiTimers, apiOp, updates,
          hostCalls, characteristicOn, fanSwitches, fanActive, hostOp>>

----------------------------------------------------------------------------
(* Arithmetic helpers *)

Abs(x) == IF x < 0 THEN -x ELSE x

\* Math.round(n / d) for d > 0: nearest integer, halves towards +infinity
Round(n, d) == (2 * n + d) \div (2 * d)

\* the both-relays-off patch and the number of such patches in a sequence
AllOff == [c \in Channels |-> "off"]
Offs(patches) == Cardinality({i \in 1..Len(patches) : patches[i] = AllOff})
NoFault == [active |-> FALSE, offs |-> 0]

RemoveAt(s, i) == [j \in 1..(Len(s) - 1) |-> IF j < i THEN s[j] ELSE s[j + 1]]

----------------------------------------------------------------------------
(* Motion controller: pure parts *)

\* getBlindState with the entries of MAPPING for one relay on exchanged
getBlindStateSwapped(sw, ctx) ==
    LET switch0 == IF sw[ctx.switchUp] = "on" THEN 1 ELSE 0
        switch1 == IF sw[ctx.switchDown] = "on" THEN 1 ELSE 0
        sum == (switch0 * 2) + switch1
        MAPPING == (0 :> 2) @@ (1 :> 0) @@ (2 :> 1) @@ (3 :> 3)
    IN  MAPPING[sum]

getBlindState(sw, ctx) ==
    LET switch0 == IF sw[ctx.switchUp] = "on" THEN 1 ELSE 0
        switch1 == IF sw[ctx.switchDown] = "on" THEN 1 ELSE 0
        sum == (switch0 * 2) + switch1
        MAPPING == (0 :> 2) @@ (1 :> 1) @@ (2 :> 0) @@ (3 :> 3)
    IN  MAPPING[sum]

\* actualPosition that rounds a position halfway between two percentage
\* points towards the lower one
actualPositionHalfDown(ctx, timestamp) ==
    IF ctx.currentPositionState = 1
    THEN (2 * (ctx.lastPosition * ctx.percentDurationDown
                 - (timestamp - ctx.startTimestamp)) + ctx.percentDurationDown - 1)
             \div (2 * ctx.percentDurationDown)
    ELSE IF ctx.currentPositionState = 0
    THEN (2 * (ctx.lastPosition * ctx.percentDurationUp
                 + (timestamp - ctx.startTimestamp)) + ctx.percentDurationUp - 1)
             \div (2 * ctx.percentDurationUp)
    ELSE ctx.lastPosition

actualPosition(ctx, timestamp) ==
    IF ctx.currentPositionState = 1
    THEN Round(ctx.lastPosition * ctx.percentDurationDown
                 - (timestamp - ctx.startTimestamp), ctx.percentDurationDown)
    ELSE IF ctx.currentPositionState = 0
    THEN Round(ctx.lastPosition * ctx.percentDurationUp
                 + (timestamp - ctx.startTimestamp), ctx.percentDurationUp)
    ELSE ctx.lastPosition

----------------------------------------------------------------------------
(* Motion controller: operations on the world                              *)
(* w = [context, switches, timers, issued, branch, callbacks]; issued      *)
(* collects the relay arrays handed to apiClient.updateDeviceStatus by the *)
(* running handler, branch names the branch of setTargetPosition that was  *)
(* taken, callbacks counts the calls of the callback the handler was given.*)

World == [context |-> context, switches |-> switches,
          timers |-> timers, issued |-> <<>>, branch |-> "none",
          callbacks |-> 0]

\* callback()
callback(w) == [w EXCEPT !.callbacks = @ + 1]

\* prepareBlindSwitchesPayload that writes only the relay it switches on
prepareBlindSwitchesPayloadOnOnly(w) ==
    LET state == w.context.currentPositionState
    IN  [w EXCEPT !.switches =
            IF state = 0 THEN [@ EXCEPT ![w.context.switchUp] = "on"]
            ELSE IF state = 1 THEN [@ EXCEPT ![w.context.switchDown] = "on"]
            ELSE [c \in Channels |-> "off"]]

\* The payload's switches array IS the registry's array: it is updated in place.
prepareBlindSwitchesPayload(w) ==
    LET state == w.context.currentPositionState
        switch0 == IF state = 0 THEN "on" ELSE "off"
        switch1 == IF state = 1 THEN "on" ELSE "off"
        s1 == [w.switches EXCEPT ![w.context.switchUp] = switch0]
        s2 == [s1 EXCEPT ![w.context.switchDown] = switch1]
    IN  [w EXCEPT !.switches = s2]

\* apiClient.updateDeviceStatus(accessory, payload.params): the patch is the
\* content of the shared array at the time of the call.
updateDeviceStatus(w) == [w EXCEPT !.issued = Append(@, w.switches)]

\* setFinalBlindsState, synchronous part
setFinalBlindsState(w, timestamp, by) ==
    LET w1 == [w EXCEPT !.context.currentPositionState = 2]
        w2 == prepareBlindSwitchesPayload(w1)
    IN  [w2 EXCEPT !.timers =
            Append(@, [kind |-> "final", due |-> timestamp + DeferDelay, by |-> by])]

\* finalStep with the assignment of lastPosition left out
finalStepNoSettle(w) ==
    LET w1 == updateDeviceStatus(w)
    IN  [w1 EXCEPT !.context.currentPositionState = 2]

\* setFinalBlindsState, the callback deferred by setTimeout(..., 1)
finalStep(w) ==
    LET w1 == updateDeviceStatus(w)
    IN  [w1 EXCEPT !.context.currentPositionState = 2,
                   !.context.lastPosition = w.context.currentTargetPosition]

\* extendRun that also sends the relay patch of the current direction again
extendRunResend(w, pos, diffTime) ==
    updateDeviceStatus(prepareBlindSwitchesPayload(
        [w EXCEPT !.context.targetTimestamp = @ + diffTime,
                  !.context.currentTargetPosition = pos,
                  !.branch = "extend"]))

\* setTargetPosition, regime "already moving", branch diff > 0
extendRun(w, pos, diffTime) ==
    [w EXCEPT !.context.targetTimestamp = @ + diffTime,
              !.context.currentTargetPosition = pos,
              !.branch = "extend"]

\* setTargetPosition, regime "already moving", branch diff < 0
revertRun(w, pos, diff, actual, timestamp) ==
    LET w1 == [w EXCEPT !.context.startTimestamp = timestamp,
                        !.context.targetTimestamp = timestamp + Abs(diff),
                        !.context.lastPosition = actual,
                        !.context.currentTargetPosition = pos,
                        !.context.currentPositionState = IF @ = 0 THEN 1 ELSE 0,
                        !.branch = "revert"]
    IN  updateDeviceStatus(prepareBlindSwitchesPayload(w1))

\* diffTime of the "already moving" regime
movingDiffTime(ctx, pos) ==
    IF ctx.currentPositionState = 1
    THEN ctx.percentDurationDown * (ctx.currentTargetPosition - pos)
    ELSE ctx.percentDurationUp * (pos - ctx.currentTargetPosition)

\* diff of the "already moving" regime
movingDiff(ctx, pos, timestamp) ==
    IF Abs(pos - ctx.currentTargetPosition) = 0 THEN 0
    ELSE (ctx.targetTimestamp - timestamp) + movingDiffTime(ctx, pos)

\* runDuration100 with fullOverdrive added to every run
runDuration100Overdriven(ctx, pos) ==
    LET moveUp == pos > ctx.lastPosition
        withoutmarginetimeUP == ctx.durationUp - ctx.durationBMU
        withoutmarginetimeDOWN == ctx.durationDown - ctx.durationBMD
        travel == IF moveUp
                  THEN (pos - ctx.lastPosition) * withoutmarginetimeUP
                         + (IF ctx.lastPosition = 0 THEN 100 * ctx.durationBMU ELSE 0)
                  ELSE (ctx.lastPosition - pos) * withoutmarginetimeDOWN
                         + (IF pos = 0 THEN 100 * ctx.durationBMD ELSE 0)
    IN  Round(travel + 100 * ctx.fullOverdrive, 1)

\* duration * 100 of a run started from Stopped (duration is in seconds and
\* is rounded to two decimals by Math.round(duration * 100) / 100)
runDuration100(ctx, pos) ==
    LET moveUp == pos > ctx.lastPosition
        withoutmarginetimeUP == ctx.durationUp - ctx.durationBMU
        withoutmarginetimeDOWN == ctx.durationDown - ctx.durationBMD
        travel == IF moveUp
                  THEN (pos - ctx.lastPosition) * withoutmarginetimeUP
                         + (IF ctx.lastPosition = 0 THEN 100 * ctx.durationBMU ELSE 0)
                  ELSE (ctx.lastPosition - pos) * withoutmarginetimeDOWN
                         + (IF pos = 0 THEN 100 * ctx.durationBMD ELSE 0)
        over == IF pos = 0 \/ pos = 100 THEN 100 * ctx.fullOverdrive ELSE 0
    IN  Round(travel + over, 1)

\* setTargetPosition, regime "currently stopped" with pos # lastPosition
startRun(w, pos, timestamp) ==
    LET moveUp == pos > w.context.lastPosition
        w1 == [w EXCEPT !.context.currentTargetPosition = pos,
                        !.context.startTimestamp = timestamp,
                        !.context.targetTimestamp =
                            timestamp + runDuration100(w.context, pos) * 10,
                        !.context.currentPositionState = IF moveUp THEN 0 ELSE 1,
                        !.branch = "start"]
        w2 == prepareBlindSwitchesPayload(w1)
    IN  [w2 EXCEPT !.timers =
            Append(@, [kind |-> "start", due |-> timestamp + DeferDelay, by |-> "set"])]

\* setTargetPosition without the two tests for a target that is already set
setTargetPositionAlways(w, pos, timestamp) ==
    IF w.context.currentPositionState # 2
    THEN callback(extendRun(w, pos, movingDiffTime(w.context, pos)))
    ELSE startRun(w, pos, timestamp)

setTargetPosition(w, pos, timestamp) ==
    IF w.context.currentPositionState # 2
    THEN LET diffTime == movingDiffTime(w.context, pos)
             diff == movingDiff(w.context, pos, timestamp)
             actual == actualPosition(w.context, timestamp)
         IN  IF Abs(pos - w.context.currentTargetPosition) = 0 THEN callback(w)
             ELSE IF diff > 0 THEN callback(extendRun(w, pos, diffTime))
             ELSE IF diff < 0
             THEN callback(revertRun(w, pos, diff, actual, timestamp))
             ELSE callback(w)
    ELSE IF w.context.lastPosition = pos THEN callback(w)
    ELSE startRun(w, pos, timestamp)

\* the callback deferred by setTimeout(..., 1) in setTargetPosition
runStartStep(w, timestamp) ==
    LET w1 == updateDeviceStatus(w)
        w2 == [w1 EXCEPT !.timers =
                 Append(@, [kind |-> "poll", due |-> timestamp + PollInterval,
                            by |-> "set"])]
    IN  callback(w2)

\* pollStep that is not armed again after a tick before the deadline
pollStepOnce(w, timestamp) ==
    IF timestamp >= w.context.targetTimestamp
    THEN setFinalBlindsState(w, timestamp, "poll")
    ELSE w

\* one tick of the completion poll armed by setInterval(..., 100);
\* the poll itself has already been taken out of w.timers
pollStep(w, timestamp) ==
    IF timestamp >= w.context.targetTimestamp
    THEN setFinalBlindsState(w, timestamp, "poll")
    ELSE [w EXCEPT !.timers =
            Append(@, [kind |-> "poll", due |-> timestamp + PollInterval, by |-> "set"])]

\* a stop that keeps the target and the target time of the run
stopAtActualKeepsTarget(w, timestamp) ==
    setTargetPosition(w, w.context.currentTargetPosition, timestamp)

\* forced / external stop of updateBlindStateCharacteristic (cases 3 and 2)
stopAtActual(w, timestamp) ==
    LET actual == actualPosition(w.context, timestamp)
        w1 == [w EXCEPT !.context.currentTargetPosition = actual,
                        !.context.targetTimestamp = timestamp + StopDelay]
    IN  setTargetPosition(w1, actual, timestamp)

\* updateBlindStateCharacteristic that answers every new direction with a
\* target change, also when the target is 0 or 100 already
updateBlindStateCharacteristicNoStop(w, sw, timestamp) ==
    LET state == getBlindState(sw, w.context)
        cur == w.context.currentPositionState
    IN  IF state \in {2, 3}
        THEN IF state = 2 /\ cur = 2 THEN w ELSE stopAtActual(w, timestamp)
        ELSE IF cur = state THEN w
        ELSE setTargetPosition(w, IF state = 0 THEN 100 ELSE 0, timestamp)

updateBlindStateCharacteristic(w, sw, timestamp) ==
    LET state == getBlindState(sw, w.context)
        cur == w.context.currentPositionState
    IN  CASE state = 3 -> stopAtActual(w, timestamp)
          [] state = 2 -> IF cur = 2 THEN w ELSE stopAtActual(w, timestamp)
          [] state = 1 -> IF cur = 1 THEN w
                          ELSE IF w.context.currentTargetPosition = 0
                          THEN setFinalBlindsState(w, timestamp, "push")
                          ELSE setTargetPosition(w, 0, timestamp)
          [] state = 0 -> IF cur = 0 THEN w
                          ELSE IF w.context.currentTargetPosition = 100
                          THEN setFinalBlindsState(w, timestamp, "push")
                          ELSE setTargetPosition(w, 100, timestamp)

\* the .then callback of getPositionState
getPositionState(w, sw, timestamp) ==
    IF getBlindState(sw, w.context) > 2
    THEN setFinalBlindsState(
             [w EXCEPT !.context.currentPositionState = 2], timestamp, "get")
    ELSE w

----------------------------------------------------------------------------
(* Motion controller: state machine *)

\* configureAccessory: the restored covering; group calibration
InitContexts ==
    { [lastPosition |-> lp, currentTargetPosition |-> lp,
       currentPositionState |-> 2,
       startTimestamp |-> 0, targetTimestamp |-> 0,
       switchUp |-> 0, switchDown |-> 1,
       durationUp |-> du, durationDown |-> dd,
       durationBMU |-> bu, durationBMD |-> bd, fullOverdrive |-> od,
       percentDurationDown |-> (dd * 1000) \div 100,
       percentDurationUp |-> (du * 1000) \div 100] :
         lp \in Targets, du \in 1..MaxDuration, dd \in 1..MaxDuration,
         bu \in 0..MaxMargin, bd \in 0..MaxMargin, od \in 0..MaxOverdrive }

CovInit ==
    /\ context \in InitContexts
    /\ switches = [c \in Channels |-> "off"]
    /\ timers = <<>>
    /\ events = 0
    /\ lastOp = [op |-> "init", pos |-> -1, sw |-> NoReading, by |-> "none",
                 branch |-> "none", issued |-> <<>>, callbacks |-> 0]
    /\ fault = NoFault

Commit(w, op, pos, sw, by) ==
    /\ context' = w.context
    /\ switches' = w.switches
    /\ timers' = w.timers
    /\ lastOp' = [op |-> op, pos |-> pos, sw |-> sw, by |-> by,
                  branch |-> w.branch, issued |-> w.issued,
                  callbacks |-> w.callbacks]
    /\ fault' = IF op \in {"updateBlindStateCharacteristic", "getPositionState"}
                    /\ getBlindState(sw, context) = Error
                 THEN [active |-> TRUE, offs |-> Offs(w.issued)]
                 ELSE IF op \in {"runStart", "poll", "final"} /\ fault.active
                 THEN [fault EXCEPT !.offs = @ + Offs(w.issued)]
                 ELSE NoFault

\* host 'set' on TargetPosition
SetTargetPosition(pos) ==
    /\ events < MaxEvents
    /\ events' = events + 1
    /\ now' = now
    /\ Commit(setTargetPosition(World, pos, now),
              "setTargetPosition", pos, NoReading, "none")
    /\ UNCHANGED <<sockVars, reqVars, cacheVars, apiVars, hostVars>>

\* push of a relay-state update for the covering's device
UpdateBlindStateCharacteristic(sw) ==
    /\ events < MaxEvents
    /\ events' = events + 1
    /\ now' = now
    /\ Commit(updateBlindStateCharacteristic(World, sw, now),
              "updateBlindStateCharacteristic", -1, sw, "none")
    /\ UNCHANGED <<sockVars, reqVars, cacheVars, apiVars, hostVars>>

\* host 'get' on PositionState, at the moment the device status arrives
GetPositionState(sw) ==
    /\ events < MaxEvents
    /\ events' = events + 1
    /\ now' = now
    /\ Commit(getPositionState(World, sw, now),
              "getPositionState", -1, sw, "none")
    /\ UNCHANGED <<sockVars, reqVars, cacheVars, apiVars, hostVars>>

\* A timer may run when it is due and no timer of the same delay, created
\* earlier, is due as well.
Delay(kind) == IF kind = "poll" THEN PollInterval ELSE DeferDelay

CanFire(i) ==
    /\ timers[i].due = now
    /\ \A j \in 1..(i - 1) :
          ~(timers[j].due = now /\ Delay(timers[j].kind) = Delay(timers[i].kind))

Without(i) == [World EXCEPT !.timers = RemoveAt(timers, i)]

RunStartTimer ==
    \E i \in 1..Len(timers) :
        /\ timers[i].kind = "start"
        /\ CanFire(i)
        /\ Commit(runStartStep(Without(i), now), "runStart", -1, NoReading, "none")
        /\ UNCHANGED <<now, events, sockVars, reqVars, cacheVars, apiVars, hostVars>>

PollTimer ==
    \E i \in 1..Len(timers) :
        /\ timers[i].kind = "poll"
        /\ CanFire(i)
        /\ Commit(pollStep(Without(i), now), "poll", -1, NoReading, "none")
        /\ UNCHANGED <<now, events, sockVars, reqVars, cacheVars, apiVars, hostVars>>

FinalTimer ==
    \E i \in 1..Len(timers) :
        /\ timers[i].kind = "final"
        /\ CanFire(i)
        /\ Commit(finalStep(Without(i)), "final", -1, NoReading, timers[i].by)
        /\ UNCHANGED <<now, events, sockVars, reqVars, cacheVars, apiVars, hostVars>>

NextDue == LET dues == {timers[i].due : i \in 1..Len(timers)}
                    first == CHOOSE d \in dues : \A e \in dues : d <= e
                IN  IF first < now + TickStep THEN first ELSE now + TickStep

Tick ==
    /\ timers # <<>>
    /\ \A i \in 1..Len(timers) : timers[i].due > now
    /\ NextDue <= MaxTime
    /\ now' = NextDue
    /\ lastOp' = [op |-> "tick", pos |-> -1, sw |-> NoReading, by |-> "none",
                  branch |-> "none", issued |-> <<>>, callbacks |-> 0]
    /\ UNCHANGED <<context, switches, timers, events, fault, sockVars, reqVars, cacheVars, apiVars, hostVars>>

CovNext ==
    \/ \E pos \in Targets : SetTargetPosition(pos)
    \/ \E sw \in Readings : UpdateBlindStateCharacteristic(sw)
    \/ \E sw \in Readings : GetPositionState(sw)
    \/ RunStartTimer
    \/ PollTimer
    \/ FinalTimer
    \/ Tick

----------------------------------------------------------------------------
(* WebSocketClient: request correlation                                    *)
(* The options passed to WebSocketAsPromised in open() tell the library    *)
(* how a request is tagged and how a response is matched: sendRequest      *)
(* registers the caller under requestId (replacing, and rejecting, a       *)
(* request already registered under it) and sends attachRequestId(data,    *)
(* requestId); an inbound message resolves the request registered under    *)
(* extractRequestId(message), if there is one.                             *)

Callers == 1..MaxCallers
Absent == -1

\* "" + Date.now(); the decimal string is represented by the number it spells
getSequence(timestamp) == timestamp

\* Object.assign({sequence: requestId}, data): a sequence of data's own wins
attachRequestId(data, requestId) ==
    [data EXCEPT !.sequence = IF @ = Absent THEN requestId ELSE @]

\* an extractRequestId that reads a field the messages do not have
extractRequestIdTypo(data) == Absent

\* data => data && data.sequence
extractRequestId(data) == data.sequence

NoCall == [state |-> "idle", requestId |-> Absent, wire |-> Absent,
           by |-> Absent, answered |-> FALSE]

\* instance.sendRequest(data, {requestId}): the message that leaves is
\* attachRequestId(data, requestId), and the promise is kept under requestId;
\* a promise already kept under that id is rejected
instance_sendRequest(p, cs, c, data, requestId) ==
    LET message == attachRequestId(data, requestId)
        cs1 == IF requestId \in DOMAIN p
               THEN [cs EXCEPT ![p[requestId]].state = "rejected"]
               ELSE cs
    IN  [pending |-> (requestId :> c) @@ p,
         calls |-> [cs1 EXCEPT ![c] = [state |-> "waiting",
                                       requestId |-> requestId,
                                       wire |-> message.sequence,
                                       by |-> Absent, answered |-> FALSE]]]

\* instance.sendRequest(payload, {requestId: getSequence()}) of
\* getDeviceStatus / updateDeviceStatus; their payload has no sequence field
sendRequest(p, cs, c, timestamp) ==
    instance_sendRequest(p, cs, c, [action |-> "query", sequence |-> Absent],
                         getSequence(timestamp))

\* an unpackMessage that hands every frame to JSON.parse
unpackMessageParseAll(data) ==
    IF data.text = "json"
    THEN [threw |-> FALSE, parsed |-> TRUE, value |-> data.object]
    ELSE [threw |-> TRUE, parsed |-> TRUE,
          value |-> [action |-> "none", sequence |-> Absent]]

\* unpackMessage(data). data is the text of an inbound frame: the literal
\* 'pong', the serialisation of an object ("json"), or text that is not JSON
\* ("garbled"), on which JSON.parse throws. The string 'pong' is returned
\* as it is; it has no sequence property, so reading one gives undefined.
unpackMessage(data) ==
    IF data.text = "pong"
    THEN [threw |-> FALSE, parsed |-> FALSE,
          value |-> [action |-> "pong", sequence |-> Absent]]
    ELSE IF data.text = "json"
         THEN [threw |-> FALSE, parsed |-> TRUE, value |-> data.object]
         ELSE [threw |-> TRUE, parsed |-> TRUE,
               value |-> [action |-> "none", sequence |-> Absent]]

\* an inbound message, after unpackMessage
onUnpackedMessage(p, cs, message) ==
    LET id == extractRequestId(message)
    IN  IF id # Absent /\ id \in DOMAIN p
        THEN [pending |-> [i \in DOMAIN p \ {id} |-> p[i]],
              calls |-> [cs EXCEPT ![p[id]].state = "resolved",
                                   ![p[id]].by = message.sequence]]
        ELSE [pending |-> p, calls |-> cs]

----------------------------------------------------------------------------
(* WebSocketClient: connection life cycle                                  *)
(* w = [url, instance, socketOpen, pendingReconnect, pingInterval,         *)
(*      livePings, loginPending, wsTimers, scheduled, opened, onclose,     *)
(*      onerror, hbInterval, period, cleared]; the fields from scheduled on *)
(*      record what the running handler did.                                *)
(* The transport is websocket-as-promised over ws: its onClose channel      *)
(* hands the listener the close event, an object that carries the close     *)
(* code in its field code, and its onError channel hands over the error.    *)
(* A JavaScript value is [type, code]: type "number" for a bare number,     *)
(* type "object" for an event object whose field code is given.             *)

Urls == {"wss://a", "wss://b"}
CloseCodes == {CLOSE_NORMAL, 1006}
ErrorCodes == {"ECONNREFUSED", "ECONNRESET"}

\* the close event the transport dispatches for close code c
CloseEvent(c) == [type |-> "object", code |-> c]

\* no value (the callback has not been called)
NoArg == [type |-> "none", code |-> 0]

\* the JavaScript comparison a === n of a value with a number
StrictEquals(a, n) == a.type = "number" /\ a.code = n

NoInstance == [url |-> "none", listeners |-> FALSE, state |-> "none"]

Client == [url |-> url, instance |-> instance, socketOpen |-> socketOpen,
           pendingReconnect |-> pendingReconnect, pingInterval |-> pingInterval,
           livePings |-> livePings, loginPending |-> loginPending,
           wsTimers |-> wsTimers,
           scheduled |-> 0, opened |-> "none", onclose |-> NoArg, onerror |-> FALSE,
           hbInterval |-> 0, period |-> 0,
               cleared |-> FALSE]

\* open(url): remember the url, create the transport, attach the listeners
open(w, u) ==
    [w EXCEPT !.url = u,
              !.instance = [url |-> u, listeners |-> TRUE, state |-> "connecting"],
              !.opened = u]

\* reconnect() without the in-flight guard: every call arms a timer
reconnectNaive(w, timestamp) ==
    [w EXCEPT !.wsTimers = Append(@, [due |-> timestamp + autoReconnectInterval,
                                      set |-> timestamp]),
              !.scheduled = @ + 1]

reconnect(w, timestamp) ==
    IF ~w.pendingReconnect
    THEN [w EXCEPT !.pendingReconnect = TRUE,
                   !.instance.listeners = FALSE,
                   !.wsTimers = Append(@, [due |-> timestamp + autoReconnectInterval,
                                           set |-> timestamp]),
                   !.scheduled = @ + 1]
    ELSE w

\* the reconnect timer's callback with the reset of the flag left out
reconnectTimerStepKeepsFlag(w) == open(w, w.url)

\* the callback of the timer armed by reconnect()
reconnectTimerStep(w) ==
    open([w EXCEPT !.pendingReconnect = FALSE], w.url)

\* onCloseListener that cancels the heartbeat only on a normal close
onCloseListenerKeepsPing(w, e, timestamp) ==
    IF StrictEquals(e, CLOSE_NORMAL) \/ e.code = CLOSE_NORMAL
    THEN [w EXCEPT !.socketOpen = FALSE,
                   !.livePings = IF w.pingInterval THEN @ - 1 ELSE @,
                   !.cleared = w.pingInterval,
                   !.pingInterval = FALSE,
                   !.onclose = e]
    ELSE [reconnect(w, timestamp) EXCEPT !.socketOpen = FALSE, !.onclose = e]

\* the listener added to instance.onClose; cleared records that it
\* cancelled a heartbeat interval
onCloseListener(w, e, timestamp) ==
    LET w1 == IF StrictEquals(e, CLOSE_NORMAL) THEN w ELSE reconnect(w, timestamp)
    IN  [w1 EXCEPT !.socketOpen = FALSE,
                   !.livePings = IF w1.pingInterval THEN @ - 1 ELSE @,
                   !.cleared = w1.pingInterval,
                   !.pingInterval = FALSE,
                   !.onclose = e]

\* the listener added to instance.onError
onErrorListener(w, code, timestamp) ==
    IF code = "ECONNREFUSED" THEN reconnect(w, timestamp)
    ELSE [w EXCEPT !.onerror = TRUE]

\* onopen(): mark the socket open and send the login request
onopen(w) == [w EXCEPT !.socketOpen = TRUE, !.loginPending = TRUE]

\* the .then callback of the login request: response.config may be missing
\* (config = FALSE); hb and hbInterval are 0 when the config does not have
\* them. The interval started by setInterval sends 'ping' every period ms.
loginResponse(w, response) ==
    IF response.config /\ response.hb # 0 /\ response.hbInterval # 0
    THEN [w EXCEPT !.pingInterval = TRUE, !.livePings = @ + 1,
                   !.period = (response.hbInterval + 7) * 1000]
    ELSE w

SocketInit ==
    /\ url = "none"
    /\ instance = NoInstance
    /\ socketOpen = FALSE
    /\ pendingReconnect = FALSE
    /\ pingInterval = FALSE
    /\ livePings = 0
    /\ loginPending = FALSE
    /\ wsTimers = <<>>
    /\ signals = 0
    /\ wsOp = [op |-> "init", code |-> "none", delivered |-> FALSE,
               scheduled |-> 0, opened |-> "none", onclose |-> NoArg,
               onerror |-> FALSE, set |-> 0, hbInterval |-> 0, period |-> 0,
               cleared |-> FALSE]

SocketCommit(w, op, code, delivered, set) ==
    /\ url' = w.url
    /\ instance' = w.instance
    /\ socketOpen' = w.socketOpen
    /\ pendingReconnect' = w.pendingReconnect
    /\ pingInterval' = w.pingInterval
    /\ livePings' = w.livePings
    /\ loginPending' = w.loginPending
    /\ wsTimers' = w.wsTimers
    /\ wsOp' = [op |-> op, code |-> code, delivered |-> delivered,
                scheduled |-> w.scheduled, opened |-> w.opened,
                onclose |-> w.onclose, onerror |-> w.onerror, set |-> set,
                hbInterval |-> w.hbInterval, period |-> w.period,
                cleared |-> w.cleared]

\* the platform opens the connection after login
Open(u) ==
    /\ instance = NoInstance
    /\ SocketCommit(open(Client, u), "open", "none", FALSE, 0)
    /\ UNCHANGED <<now, signals, covVars, reqVars, cacheVars, apiVars, hostVars>>

\* the transport reports that the connection is established
TransportOpen ==
    /\ instance.state = "connecting"
    /\ LET w1 == [Client EXCEPT !.instance.state = "open"]
       IN  SocketCommit(IF instance.listeners THEN onopen(w1) ELSE w1,
                        "transportOpen", "none", instance.listeners, 0)
    /\ UNCHANGED <<now, signals, covVars, reqVars, cacheVars, apiVars, hostVars>>

\* the transport reports a close with close code e; requests that still
\* await a response are rejected
TransportClose(e) ==
    /\ instance.state \in {"connecting", "open"}
    /\ signals < MaxSignals
    /\ now + autoReconnectInterval <= MaxSocketTime
    /\ signals' = signals + 1
    /\ LET w1 == [Client EXCEPT !.instance.state = "closed",
                                !.loginPending = FALSE]
       IN  SocketCommit(IF instance.listeners
                        THEN onCloseListener(w1, CloseEvent(e), now) ELSE w1,
                        "close", e, instance.listeners, 0)
    /\ UNCHANGED <<now, covVars, reqVars, cacheVars, apiVars, hostVars>>

\* the transport reports an error
TransportError(code) ==
    /\ instance.state \in {"connecting", "open"}
    /\ code = "ECONNREFUSED" => instance.state = "connecting"
    /\ signals < MaxSignals
    /\ now + autoReconnectInterval <= MaxSocketTime
    /\ signals' = signals + 1
    /\ SocketCommit(IF instance.listeners
                    THEN onErrorListener(Client, code, now) ELSE Client,
                    "error", code, instance.listeners, 0)
    /\ UNCHANGED <<now, covVars, reqVars, cacheVars, apiVars, hostVars>>

\* the response to the login request arrives, with or without a heartbeat
\* interval in its config. The request left as in onopen: payload.sequence
\* is the clock reading built, the promise is kept under the later reading;
\* the service echoes the sequence it received, and the .then callback runs
\* when the transport finds the promise under that sequence.
LoginResponse(response) ==
    /\ loginPending
    /\ instance.state = "open"
    /\ \E built \in {now - 1, now} :
          /\ built >= 0
          /\ LET request == instance_sendRequest(<<>>, <<NoCall>>, 1,
                                                 [action |-> "userOnline",
                                                  sequence |-> getSequence(built)],
                                                 getSequence(now))
                 answer == onUnpackedMessage(request.pending, request.calls,
                                             [action |-> "response",
                                              sequence |-> request.calls[1].wire])
                 w1 == [Client EXCEPT !.loginPending = FALSE,
                                      !.hbInterval = IF response.config
                                                     THEN response.hbInterval
                                                     ELSE 0]
             IN  SocketCommit(IF answer.calls[1].state = "resolved"
                              THEN loginResponse(w1, response) ELSE w1,
                              "loginResponse", "none", TRUE, 0)
    /\ UNCHANGED <<now, signals, covVars, reqVars, cacheVars, apiVars, hostVars>>

ReconnectTimer ==
    /\ wsTimers # <<>>
    /\ wsTimers[1].due = now
    /\ SocketCommit(reconnectTimerStep([Client EXCEPT !.wsTimers = Tail(@)]),
                    "reconnectTimer", "none", TRUE, wsTimers[1].set)
    /\ UNCHANGED <<now, signals, covVars, reqVars, cacheVars, apiVars, hostVars>>

SocketTick ==
    /\ \A i \in 1..Len(wsTimers) : wsTimers[i].due > now
    /\ \/ /\ wsTimers # <<>>
          /\ now' = IF wsTimers[1].due < now + SocketStep
                    THEN wsTimers[1].due ELSE now + SocketStep
       \/ /\ wsTimers = <<>>
          /\ now + SocketStep <= MaxSocketTime
          /\ now' = now + SocketStep
    /\ wsOp' = [op |-> "tick", code |-> "none", delivered |-> FALSE,
                scheduled |-> 0, opened |-> "none", onclose |-> NoArg,
                onerror |-> FALSE, set |-> 0, hbInterval |-> 0, period |-> 0,
               cleared |-> FALSE]
    /\ UNCHANGED <<url, instance, socketOpen, pendingReconnect, pingInterval,
                   livePings, loginPending, wsTimers, signals, covVars, reqVars, cacheVars, apiVars, hostVars>>

SocketNext ==
    \/ \E u \in Urls : Open(u)
    \/ TransportOpen
    \/ \E e \in CloseCodes : TransportClose(e)
    \/ \E code \in ErrorCodes : TransportError(code)
    \/ \E config \in BOOLEAN, hb \in {0, 1}, hbInterval \in 0..MaxHbInterval :
          LoginResponse([config |-> config, hb |-> hb, hbInterval |-> hbInterval])
    \/ ReconnectTimer
    \/ SocketTick

----------------------------------------------------------------------------
(* WebSocketClient: request correlation, state machine *)

RequestInit ==
    /\ pending = [i \in {} |-> 0]
    /\ calls = [c \in Callers |-> NoCall]
    /\ reqOp = [op |-> "init", caller |-> 0, sequence |-> Absent,
               parsed |-> FALSE, threw |-> FALSE]

\* caller c's request leaves (after its jitter delay)
SendRequest(c) ==
    /\ calls[c].state = "idle"
    /\ LET r == sendRequest(pending, calls, c, now)
       IN  /\ pending' = r.pending
           /\ calls' = r.calls
    /\ reqOp' = [op |-> "send", caller |-> c, sequence |-> getSequence(now),
                 parsed |-> FALSE, threw |-> FALSE]
    /\ UNCHANGED <<now, covVars, sockVars, cacheVars, apiVars, hostVars>>

\* the login request of onopen: payload.sequence = getSequence() when the
\* payload is built, then the payload is serialised and logged, then
\* sendRequest(payload, {requestId: getSequence()}) reads the clock again;
\* built is the millisecond of the first reading, now that of the second
LoginRequest(c) ==
    /\ calls[c].state = "idle"
    /\ \E built \in {now - 1, now} :
          /\ built >= 0
          /\ LET r == instance_sendRequest(pending, calls, c,
                                           [action |-> "userOnline",
                                            sequence |-> getSequence(built)],
                                           getSequence(now))
             IN  /\ pending' = r.pending
                 /\ calls' = r.calls
    /\ reqOp' = [op |-> "login", caller |-> c, sequence |-> getSequence(now),
                 parsed |-> FALSE, threw |-> FALSE]
    /\ UNCHANGED <<now, covVars, sockVars, cacheVars, apiVars, hostVars>>

\* the service answers caller c's request, echoing the sequence it received
Response(c) ==
    /\ calls[c].state \in {"waiting", "rejected"}
    /\ ~calls[c].answered
    /\ LET data == [text |-> "json",
                    object |-> [action |-> "response",
                                sequence |-> calls[c].wire]]
           unpacked == unpackMessage(data)
           message == unpacked.value
           r == onUnpackedMessage(pending,
                                  [calls EXCEPT ![c].answered = TRUE], message)
       IN  /\ pending' = r.pending
           /\ calls' = r.calls
           /\ reqOp' = [op |-> "response", caller |-> c,
                        sequence |-> message.sequence,
                        parsed |-> unpacked.parsed, threw |-> unpacked.threw]
    /\ UNCHANGED <<now, covVars, sockVars, cacheVars, apiVars, hostVars>>

\* a push ('update' / 'sysmsg') arrives: it carries no sequence
PushMessage ==
    /\ reqOp.op # "push"
    /\ LET data == [text |-> "json",
                    object |-> [action |-> "update", sequence |-> Absent]]
           unpacked == unpackMessage(data)
           message == unpacked.value
           r == onUnpackedMessage(pending, calls, message)
       IN  /\ pending' = r.pending
           /\ calls' = r.calls
           /\ reqOp' = [op |-> "push", caller |-> 0,
                        sequence |-> message.sequence,
                        parsed |-> unpacked.parsed, threw |-> unpacked.threw]
    /\ UNCHANGED <<now, covVars, sockVars, cacheVars, apiVars, hostVars>>

\* a frame that is not the serialisation of an object arrives: the reply to
\* a ping, or text JSON.parse rejects. The transport unpacks it and, unless
\* unpackMessage threw, matches the result against the pending requests.
InboundText(text) ==
    /\ reqOp.op \notin {"pong", "garbled"}
    /\ LET unpacked == unpackMessage([text |-> text])
           r == IF unpacked.threw
                THEN [pending |-> pending, calls |-> calls]
                ELSE onUnpackedMessage(pending, calls, unpacked.value)
       IN  /\ pending' = r.pending
           /\ calls' = r.calls
           /\ reqOp' = [op |-> text, caller |-> 0,
                        sequence |-> unpacked.value.sequence,
                        parsed |-> unpacked.parsed, threw |-> unpacked.threw]
    /\ UNCHANGED <<now, covVars, sockVars, cacheVars, apiVars, hostVars>>

RequestTick ==
    /\ now < MaxRequestTime
    /\ now' = now + 1
    /\ reqOp' = [op |-> "tick", caller |-> 0, sequence |-> Absent,
                 parsed |-> FALSE, threw |-> FALSE]
    /\ UNCHANGED <<pending, calls, covVars, sockVars, cacheVars, apiVars, hostVars>>

RequestNext ==
    \/ \E c \in Callers : SendRequest(c)
    \/ LoginRequest(1)
    \/ \E c \in Callers : Response(c)
    \/ PushMessage
    \/ \E text \in {"pong", "garbled"} : InboundText(text)
    \/ RequestTick

----------------------------------------------------------------------------
(* Cache: values that are removed after their cacheDuration               *)
(* c = [cacheMap, timerMap, cacheTimers, timerCount, emitted]; emitted is   *)
(* the key of the 'expiry' event the running callback emitted, if any.      *)

Keys == {"d1", "d2"}
Values == {"s1", "s2"}
Undefined == "undefined"
Durations == {CacheStep, defaultCacheDuration}

TheCache == [cacheMap |-> cacheMap, timerMap |-> timerMap,
             cacheTimers |-> cacheTimers, timerCount |-> timerCount,
             emitted |-> Undefined]

\* whether key holds an entry whose timer is still armed
Live(timerSet, tm, key) == \E t \in timerSet : t.key = key /\ t.id = tm[key]

\* get(key)
Cache_get(c, key) == c.cacheMap[key]

\* a _clearTimer that leaves the timer armed
Cache_clearTimerNoop(c, key) == c

\* _clearTimer(key): clearTimeout of the timer the key was given last
Cache_clearTimer(c, key) ==
    LET existingTimerId == c.timerMap[key]
    IN  IF existingTimerId # 0
        THEN [c EXCEPT !.cacheTimers = {t \in @ : t.id # existingTimerId}]
        ELSE c

\* set(key, value, cacheDuration)
Cache_set(c, key, value, cacheDuration, timestamp) ==
    LET c1 == Cache_clearTimer(c, key)
        timerId == c1.timerCount + 1
    IN  [c1 EXCEPT !.cacheMap[key] = value,
                   !.cacheTimers = @ \cup {[id |-> timerId, key |-> key,
                                            due |-> timestamp + cacheDuration,
                                            value |-> value,
                                            reset |-> Live(c.cacheTimers,
                                                           c.timerMap, key)]},
                   !.timerCount = timerId,
                   !.timerMap[key] = timerId]

\* a timer callback that empties the whole cache
Cache_expireAll(c, t) ==
    [c EXCEPT !.cacheMap = [k \in Keys |-> Undefined],
              !.cacheTimers = @ \ {t},
              !.emitted = IF c.cacheMap[t.key] # Undefined THEN t.key ELSE Undefined]

\* the callback of the timer armed by set
Cache_expire(c, t) ==
    LET removed == c.cacheMap[t.key] # Undefined
    IN  [c EXCEPT !.cacheMap[t.key] = Undefined,
                  !.cacheTimers = @ \ {t},
                  !.emitted = IF removed THEN t.key ELSE Undefined]

\* a delete that clears the timer and keeps the value
Cache_deleteTimerOnly(c, key) == Cache_clearTimer(c, key)

\* delete(key)
Cache_delete(c, key) ==
    Cache_clearTimer([c EXCEPT !.cacheMap[key] = Undefined], key)

NoCacheOp == [op |-> "init", key |-> Undefined, value |-> Undefined,
              emitted |-> Undefined, fired |-> 0, due |-> 0, reset |-> FALSE]

CacheInit ==
    /\ cacheMap = [k \in Keys |-> Undefined]
    /\ timerMap = [k \in Keys |-> 0]
    /\ cacheTimers = {}
    /\ timerCount = 0
    /\ cacheOp = NoCacheOp

CacheCommit(c, op) ==
    /\ cacheMap' = c.cacheMap
    /\ timerMap' = c.timerMap
    /\ cacheTimers' = c.cacheTimers
    /\ timerCount' = c.timerCount
    /\ cacheOp' = op

CacheSet(key, value, cacheDuration) ==
    /\ timerCount < MaxCacheSets
    /\ now + cacheDuration <= MaxCacheTime
    /\ CacheCommit(Cache_set(TheCache, key, value, cacheDuration, now),
                   [NoCacheOp EXCEPT !.op = "set", !.key = key, !.value = value,
                                     !.due = now + cacheDuration,
                                     !.reset = Live(cacheTimers, timerMap, key)])
    /\ UNCHANGED <<now, covVars, sockVars, reqVars, apiVars, hostVars>>

CacheGet(key) ==
    /\ CacheCommit(TheCache,
                   [NoCacheOp EXCEPT !.op = "get", !.key = key,
                                     !.value = Cache_get(TheCache, key)])
    /\ UNCHANGED <<now, covVars, sockVars, reqVars, apiVars, hostVars>>

CacheDelete(key) ==
    /\ CacheCommit(Cache_delete(TheCache, key),
                   [NoCacheOp EXCEPT !.op = "delete", !.key = key])
    /\ UNCHANGED <<now, covVars, sockVars, reqVars, apiVars, hostVars>>

\* a timer that is due runs its callback
CacheTimer ==
    /\ \E t \in cacheTimers :
          /\ t.due <= now
          /\ LET c == Cache_expire(TheCache, t)
             IN  CacheCommit(c, [NoCacheOp EXCEPT !.op = "timer", !.key = t.key,
                                                  !.emitted = c.emitted,
                                                  !.fired = t.id, !.due = t.due,
                                                  !.reset = t.reset])
    /\ UNCHANGED <<now, covVars, sockVars, reqVars, apiVars, hostVars>>

CacheTick ==
    /\ \A t \in cacheTimers : t.due > now
    /\ now + CacheStep <= MaxCacheTime \/ cacheTimers # {}
    /\ LET next == now + CacheStep
       IN  now' = IF \E t \in cacheTimers : t.due < next
                  THEN CHOOSE d \in {t.due : t \in cacheTimers} :
                          \A t \in cacheTimers : d <= t.due
                  ELSE next
    /\ cacheOp' = [NoCacheOp EXCEPT !.op = "tick"]
    /\ UNCHANGED <<cacheMap, timerMap, cacheTimers, timerCount,
                   covVars, sockVars, reqVars, apiVars, hostVars>>

CacheNext ==
    \/ \E k \in Keys, v \in Values, d \in Durations : CacheSet(k, v, d)
    \/ \E k \in Keys : CacheGet(k)
    \/ \E k \in Keys : CacheDelete(k)
    \/ CacheTimer
    \/ CacheTick

----------------------------------------------------------------------------
(* WebSocketClient: getDeviceStatus and updateDeviceStatus                 *)
(* a = [cache, calls, timers, socketOpen, state]: the deviceStatusMap, the  *)
(* calls, the sleep / retry timers, this.socketOpen and the state of        *)
(* this.instance. Both methods are called once open(url) has created the    *)
(* instance. instance.sendRequest rejects at once when the instance is not  *)
(* open; otherwise the request waits until the service answers it or the    *)
(* library rejects it (the connection closed, or the request was replaced). *)

ApiCallers == 1..MaxApiCalls
Delays == {200, 300}

NoApiCall == [kind |-> "none", deviceId |-> Undefined, phase |-> "idle",
              sent |-> 0, settles |-> 0, outcome |-> Undefined,
              hit |-> FALSE, retryDue |-> 0]

TheApi == [cache |-> TheCache, calls |-> apiCalls, timers |-> apiTimers,
           socketOpen |-> socketOpen, state |-> instance.state]

\* resolve(value) / reject(err) of the promise the call returned
Settle(a, c, phase, outcome) ==
    [a EXCEPT !.calls[c].phase = phase,
              !.calls[c].outcome = IF a.calls[c].settles = 0 THEN outcome ELSE @,
              !.calls[c].settles = @ + 1]

\* instance.sendRequest(payload, {requestId: getSequence()})
Client_sendRequest(a, c) ==
    LET a1 == [a EXCEPT !.calls[c].sent = @ + 1]
    IN  IF a.state = "open"
        THEN [a1 EXCEPT !.calls[c].phase = "waiting"]
        ELSE Settle(a1, c, "rejected", "error")

\* a getDeviceStatus that always asks the service
Client_getDeviceStatusNoCache(a, c, deviceId, delay, timestamp) ==
    [a EXCEPT !.calls[c] = [NoApiCall EXCEPT !.kind = "get",
                                             !.deviceId = deviceId,
                                             !.phase = "sleeping"],
              !.timers = @ \cup {[call |-> c, kind |-> "sleep",
                                  due |-> timestamp + delay]}]

\* getDeviceStatus(deviceId), up to the pause
Client_getDeviceStatus(a, c, deviceId, delay, timestamp) ==
    LET cachedDeviceStatus == Cache_get(a.cache, deviceId)
        a1 == [a EXCEPT !.calls[c] = [NoApiCall EXCEPT !.kind = "get",
                                                       !.deviceId = deviceId]]
    IN  IF cachedDeviceStatus # Undefined
        THEN Settle([a1 EXCEPT !.calls[c].hit = TRUE], c, "resolved",
                    cachedDeviceStatus)
        ELSE [a1 EXCEPT !.calls[c].phase = "sleeping",
                        !.timers = @ \cup {[call |-> c, kind |-> "sleep",
                                            due |-> timestamp + delay]}]

\* a response handler that resolves without adding to the cache
Client_getResultNoStore(a, c, result, timestamp) ==
    Settle(a, c, "resolved", result)

\* getDeviceStatus, the request was answered
Client_getResult(a, c, result, timestamp) ==
    LET a1 == [a EXCEPT !.cache = Cache_set(@, a.calls[c].deviceId, result,
                                            defaultCacheDuration, timestamp)]
    IN  Settle(a1, c, "resolved", result)

\* updateDeviceStatus(deviceId, params), up to the pause
Client_updateDeviceStatus(a, c, deviceId, delay, timestamp) ==
    [a EXCEPT !.calls[c] = [NoApiCall EXCEPT !.kind = "update",
                                             !.deviceId = deviceId,
                                             !.phase = "sleeping"],
              !.timers = @ \cup {[call |-> c, kind |-> "sleep",
                                  due |-> timestamp + delay]}]

\* an updateDeviceStatus that gives up when the socket is closed
Client_updateAfterPauseNoRetry(a, c, timestamp) ==
    IF a.socketOpen
    THEN Client_sendRequest(a, c)
    ELSE Settle(a, c, "rejected", "error")

\* updateDeviceStatus, after the pause
Client_updateAfterPause(a, c, timestamp) ==
    IF a.socketOpen
    THEN Client_sendRequest(a, c)
    ELSE [a EXCEPT !.calls[c].phase = "retrying",
                   !.calls[c].retryDue = timestamp + RetryDelay,
                   !.timers = @ \cup {[call |-> c, kind |-> "retry",
                                       due |-> timestamp + RetryDelay]}]

NoApiOp == [op |-> "init", call |-> 0]

ApiInit ==
    /\ apiCalls = [c \in ApiCallers |-> NoApiCall]
    /\ apiTimers = {}
    /\ apiOp = NoApiOp
    /\ updates = <<>>

ApiCommit(a, op, c) ==
    /\ apiCalls' = a.calls
    /\ apiTimers' = a.timers
    /\ apiOp' = [op |-> op, call |-> c]
    /\ updates' = updates
    /\ CacheCommit(a.cache, [NoCacheOp EXCEPT !.op = op])

\* calls are numbered in the order in which they are made
IsNextCall(c) ==
    /\ apiCalls[c].phase = "idle"
    /\ \A d \in ApiCallers : d < c => apiCalls[d].phase # "idle"

GetDeviceStatus(c, deviceId, delay) ==
    /\ instance # NoInstance
    /\ IsNextCall(c)
    /\ now <= MaxStatusTime
    /\ ApiCommit(Client_getDeviceStatus(TheApi, c, deviceId, delay, now),
                 "getDeviceStatus", c)
    /\ UNCHANGED <<now, covVars, sockVars, reqVars, hostVars>>

UpdateDeviceStatus(c, deviceId, delay) ==
    /\ instance # NoInstance
    /\ IsNextCall(c)
    /\ now <= MaxStatusTime
    /\ ApiCommit(Client_updateDeviceStatus(TheApi, c, deviceId, delay, now),
                 "updateDeviceStatus", c)
    /\ UNCHANGED <<now, covVars, sockVars, reqVars, hostVars>>

\* the pause of a call is over
PauseTimer ==
    /\ \E t \in apiTimers :
          /\ t.kind = "sleep"
          /\ t.due <= now
          /\ LET a == [TheApi EXCEPT !.timers = @ \ {t}]
             IN  ApiCommit(IF apiCalls[t.call].kind = "get"
                           THEN Client_sendRequest(a, t.call)
                           ELSE Client_updateAfterPause(a, t.call, now),
                           "afterPause", t.call)
    /\ UNCHANGED <<now, covVars, sockVars, reqVars, hostVars>>

\* the retry timer of an updateDeviceStatus runs
RetryTimer ==
    /\ \E t \in apiTimers :
          /\ t.kind = "retry"
          /\ t.due <= now
          /\ ApiCommit(Client_sendRequest([TheApi EXCEPT !.timers = @ \ {t}],
                                           t.call),
                       "retry", t.call)
    /\ UNCHANGED <<now, covVars, sockVars, reqVars, hostVars>>

\* the service answers the request of call c
ApiResponse(c, result) ==
    /\ apiCalls[c].phase = "waiting"
    /\ ApiCommit(IF apiCalls[c].kind = "get"
                 THEN Client_getResult(TheApi, c, result, now)
                 ELSE Settle(TheApi, c, "resolved", result),
                 "response", c)
    /\ UNCHANGED <<now, covVars, sockVars, reqVars, hostVars>>

\* the library rejects the request of call c
ApiFailure(c) ==
    /\ apiCalls[c].phase = "waiting"
    /\ ApiCommit(Settle(TheApi, c, "rejected", "error"), "failure", c)
    /\ UNCHANGED <<now, covVars, sockVars, reqVars, hostVars>>

\* every timer of the three kinds that is pending
StatusDues ==
    {t.due : t \in apiTimers} \cup {t.due : t \in cacheTimers}
        \cup {wsTimers[i].due : i \in DOMAIN wsTimers}

StatusTick ==
    /\ \A d \in StatusDues : d > now
    /\ StatusDues # {}
    /\ LET next == now + StatusStep
       IN  now' = IF \E d \in StatusDues : d < next
                  THEN CHOOSE d \in StatusDues : \A e \in StatusDues : d <= e
                  ELSE next
    /\ apiOp' = [NoApiOp EXCEPT !.op = "tick"]
    /\ UNCHANGED <<apiCalls, apiTimers, updates, covVars, sockVars, reqVars,
                   cacheVars, hostVars>>

\* getDeviceStatus calls, the cache and a connection that may drop
StatusNext ==
    \/ \E c \in ApiCallers, k \in Keys, d \in Delays : GetDeviceStatus(c, k, d)
    \/ PauseTimer
    \/ \E c \in ApiCallers, v \in Values : ApiResponse(c, v)
    \/ \E c \in ApiCallers : ApiFailure(c)
    \/ CacheTimer
    \/ signals < MaxStatusCloses /\ TransportClose(1006)
    \/ StatusTick

\* updateDeviceStatus calls for one device and a connection that drops and
\* comes back
UpdateNext ==
    \/ \E c \in ApiCallers, d \in Delays : UpdateDeviceStatus(c, "d1", d)
    \/ PauseTimer
    \/ RetryTimer
    \/ \E c \in ApiCallers, v \in Values : ApiResponse(c, v)
    \/ \E c \in ApiCallers : ApiFailure(c)
    \/ TransportOpen
    \/ signals < MaxStatusCloses /\ TransportClose(1006)
    \/ ReconnectTimer
    \/ StatusTick

----------------------------------------------------------------------------
(* Platform: handlers of the host's get / set calls on switches and fans    *)
(* h = [calls, on, fanSwitches, fanActive, setHandler, sent, thrown]; the   *)
(* last three record what the running step did: how many times it ran the   *)
(* 'set' handler of Characteristic.On, how many updates it passed to        *)
(* apiClient.updateDeviceStatus, and whether it threw.                      *)
(* The switch accessory has one channel. The host's Characteristic works as *)
(* follows: setCharacteristic(c, v) is c.setValue(v), which runs the 'set'  *)
(* handler of c when one is registered and stores v when the handler's      *)
(* callback reports no error, and stores v at once when none is registered; *)
(* c.updateValue(v) stores v and runs no handler.                           *)

HostCallers == 1..MaxEvents
DeviceStates == {"on", "off", "unknown", "malformed"}
FanSpeeds == {0, 50, 70, 100}

NoHostCall == [handler |-> "none", origin |-> "none", isOn |-> FALSE,
               setValue |-> 0, phase |-> "idle", callbacks |-> <<>>]

TheHost == [calls |-> hostCalls, on |-> characteristicOn,
            fanSwitches |-> fanSwitches, fanActive |-> fanActive,
            setHandler |-> 0, sent |-> 0, thrown |-> FALSE]

\* the promise that apiClient.getDeviceStatus / updateDeviceStatus returned to
\* call c has not been resolved or rejected
PromisePending(h, c) == h.calls[c].phase = "pending"

\* the promise of call c is resolved or rejected
PromiseSettled(h, c) == [h EXCEPT !.calls[c].phase = "settled"]

\* callback(err) when err, callback(null, value) when value
Callback(h, c, err, value) ==
    [h EXCEPT !.calls[c].callbacks = Append(@, [err |-> err, value |-> value])]

\* the callback that setValue hands to the 'set' handler of Characteristic.On
setValueCallback(h, c, err, value) ==
    LET h1 == Callback(h, c, err, value)
    IN  IF err THEN h1 ELSE [h1 EXCEPT !.on = h.calls[c].isOn]

\* a processSwitchState that reports nothing for a status it does not know
processSwitchStateSilent(h, c, deviceState) ==
    IF deviceState = "malformed" THEN [h EXCEPT !.thrown = TRUE]
    ELSE IF deviceState \in {"on", "off"} THEN Callback(h, c, FALSE, TRUE)
    ELSE h

\* processSwitchState(accessory, deviceState, callback, switchNumber);
\* "malformed" is a deviceState without the field that is read
processSwitchState(h, c, deviceState) ==
    IF deviceState = "malformed" THEN [h EXCEPT !.thrown = TRUE]
    ELSE IF deviceState = "on" THEN Callback(h, c, FALSE, TRUE)
    ELSE IF deviceState = "off" THEN Callback(h, c, FALSE, TRUE)
    ELSE Callback(h, c, TRUE, FALSE)

\* .catch of getSwitchState, getPositionState, setPowerState and setFanSpeed:
\* callback(err)
Catch(h, c) == Callback(h, c, TRUE, FALSE)

\* getSwitchState, .then followed by .catch
getSwitchStateThen(h, c, deviceState) ==
    LET h1 == processSwitchState(h, c, deviceState)
    IN  IF h1.thrown
        THEN Catch([h1 EXCEPT !.thrown = FALSE], c)
        ELSE h1

\* getPositionState, the callback(null, blindState) of .then
getPositionStateThen(h, c) == Callback(h, c, FALSE, TRUE)

\* setPowerState(accessory, isOn, callback), up to the request
setPowerState(h, c, isOn, origin) ==
    [h EXCEPT !.calls[c] = [NoHostCall EXCEPT !.handler = "setPowerState",
                                              !.origin = origin,
                                              !.isOn = isOn,
                                              !.phase = "pending"],
              !.sent = @ + 1]

\* setPowerState, .then
setPowerStateThen(h, c) == setValueCallback(h, c, FALSE, TRUE)

\* the relay states and the notch that setFanSpeed chooses for value
Notch(value) ==
    IF value < 33
    THEN [switches |-> <<"off", "off", "off">>, setValue |-> 0]
    ELSE IF value >= 33 /\ value < 66
    THEN [switches |-> <<"on", "off", "off">>, setValue |-> 33]
    ELSE IF value >= 66 /\ value < 99
    THEN [switches |-> <<"on", "on", "off">>, setValue |-> 66]
    ELSE [switches |-> <<"on", "off", "on">>, setValue |-> 100]

\* setFanSpeed(accessory, value, callback), up to the request; the payload's
\* switches array is the registry's array
setFanSpeed(h, c, value) ==
    [h EXCEPT !.fanSwitches = [i \in 1..3 |-> Notch(value).switches[i]],
              !.calls[c] = [NoHostCall EXCEPT !.handler = "setFanSpeed",
                                              !.origin = "host",
                                              !.setValue = Notch(value).setValue,
                                              !.phase = "pending"],
              !.sent = @ + 1]

\* setFanSpeed, .then; Characteristic.Active has no 'set' handler
setFanSpeedThen(h, c) ==
    Callback([h EXCEPT !.fanActive = (h.fanSwitches[1] = "on")], c, FALSE, TRUE)

\* updatePowerStateCharacteristic(deviceId, state) for an accessory that
\* exists; setCharacteristic runs the 'set' handler registered by
\* configureAccessory, which calls setPowerState
updatePowerStateCharacteristic(h, c, state) ==
    LET isOn == (state = "on")
        currentState == h.on
    IN  IF currentState # isOn
        THEN setPowerState([h EXCEPT !.setHandler = @ + 1], c, isOn, "push")
        ELSE h

HostInit ==
    /\ hostCalls = [c \in HostCallers |-> NoHostCall]
    /\ characteristicOn = FALSE
    /\ fanSwitches = [i \in 1..3 |-> "off"]
    /\ fanActive = FALSE
    /\ hostOp = [op |-> "init", call |-> 0, setHandler |-> 0, sent |-> 0]

HostCommit(h, op, c) ==
    /\ hostCalls' = h.calls
    /\ characteristicOn' = h.on
    /\ fanSwitches' = h.fanSwitches
    /\ fanActive' = h.fanActive
    /\ hostOp' = [op |-> op, call |-> c, setHandler |-> h.setHandler,
                  sent |-> h.sent]

\* calls are numbered by the external input that made them
IsNextHostCall(c) ==
    /\ events < MaxEvents
    /\ c = events + 1
    /\ events' = events + 1

\* host 'get' on Characteristic.On
GetSwitchState(c) ==
    /\ IsNextHostCall(c)
    /\ HostCommit([TheHost EXCEPT !.calls[c] =
                      [NoHostCall EXCEPT !.handler = "getSwitchState",
                                         !.origin = "host",
                                         !.phase = "pending"]],
                  "getSwitchState", c)
    /\ UNCHANGED <<now, context, switches, timers, lastOp, fault,
                   sockVars, reqVars, cacheVars, apiVars>>

\* host 'get' on PositionState, up to the request
GetPositionStateCall(c) ==
    /\ IsNextHostCall(c)
    /\ HostCommit([TheHost EXCEPT !.calls[c] =
                      [NoHostCall EXCEPT !.handler = "getPositionState",
                                         !.origin = "host",
                                         !.phase = "pending"]],
                  "getPositionState", c)
    /\ UNCHANGED <<now, context, switches, timers, lastOp, fault,
                   sockVars, reqVars, cacheVars, apiVars>>

\* host 'set' on Characteristic.On
SetPowerState(c, isOn) ==
    /\ IsNextHostCall(c)
    /\ HostCommit(setPowerState(TheHost, c, isOn, "host"), "setPowerState", c)
    /\ UNCHANGED <<now, context, switches, timers, lastOp, fault,
                   sockVars, reqVars, cacheVars, apiVars>>

\* host 'set' on RotationSpeed
SetFanSpeed(c, value) ==
    /\ IsNextHostCall(c)
    /\ HostCommit(setFanSpeed(TheHost, c, value), "setFanSpeed", c)
    /\ UNCHANGED <<now, context, switches, timers, lastOp, fault,
                   sockVars, reqVars, cacheVars, apiVars>>

\* push of a power state for the switch accessory
PushPowerState(c, state) ==
    /\ IsNextHostCall(c)
    /\ HostCommit(updatePowerStateCharacteristic(TheHost, c, state),
                  "updatePowerStateCharacteristic", c)
    /\ UNCHANGED <<now, context, switches, timers, lastOp, fault,
                   sockVars, reqVars, cacheVars, apiVars>>

\* the device status asked for by getSwitchState arrives
SwitchStateArrives(c, deviceState) ==
    /\ PromisePending(TheHost, c)
    /\ hostCalls[c].handler = "getSwitchState"
    /\ HostCommit(getSwitchStateThen(PromiseSettled(TheHost, c), c, deviceState),
                  "then", c)
    /\ UNCHANGED <<now, covVars, sockVars, reqVars, cacheVars, apiVars>>

\* the device status asked for by getPositionState arrives
PositionStateArrives(c, sw) ==
    /\ PromisePending(TheHost, c)
    /\ hostCalls[c].handler = "getPositionState"
    /\ Commit(getPositionState(World, sw, now), "getPositionState", -1, sw, "none")
    /\ HostCommit(getPositionStateThen(PromiseSettled(TheHost, c), c), "then", c)
    /\ UNCHANGED <<now, events, sockVars, reqVars, cacheVars, apiVars>>

\* the update sent by setPowerState or setFanSpeed is acknowledged
UpdateAcknowledged(c) ==
    /\ PromisePending(TheHost, c)
    /\ hostCalls[c].handler \in {"setPowerState", "setFanSpeed"}
    /\ LET h == PromiseSettled(TheHost, c)
       IN  HostCommit(IF hostCalls[c].handler = "setPowerState"
                      THEN setPowerStateThen(h, c)
                      ELSE setFanSpeedThen(h, c),
                      "then", c)
    /\ UNCHANGED <<now, covVars, sockVars, reqVars, cacheVars, apiVars>>

\* the request of call c fails
HostRequestFails(c) ==
    /\ PromisePending(TheHost, c)
    /\ HostCommit(Catch(PromiseSettled(TheHost, c), c), "catch", c)
    /\ UNCHANGED <<now, covVars, sockVars, reqVars, cacheVars, apiVars>>

HostNext ==
    \/ \E c \in HostCallers : GetSwitchState(c)
    \/ \E c \in HostCallers : GetPositionStateCall(c)
    \/ \E c \in HostCallers, isOn \in BOOLEAN : SetPowerState(c, isOn)
    \/ \E c \in HostCallers, value \in FanSpeeds : SetFanSpeed(c, value)
    \/ \E c \in HostCallers, state \in {"on", "off"} : PushPowerState(c, state)
    \/ \E pos \in Targets : SetTargetPosition(pos)
    \/ \E c \in HostCallers, deviceState \in DeviceStates :
          SwitchStateArrives(c, deviceState)
    \/ \E c \in HostCallers, sw \in Readings : PositionStateArrives(c, sw)
    \/ \E c \in HostCallers : UpdateAcknowledged(c)
    \/ \E c \in HostCallers : HostRequestFails(c)
    \/ RunStartTimer
    \/ PollTimer
    \/ FinalTimer
    \/ Tick

----------------------------------------------------------------------------
(* Specifications *)

\* a covering at rest, for the specifications that are not about coverings
CovIdle ==
    /\ context = CHOOSE c \in InitContexts : c.lastPosition = 0
    /\ switches = [c \in Channels |-> "off"]
    /\ timers = <<>>
    /\ events = 0
    /\ lastOp = [op |-> "init", pos |-> -1, sw |-> NoReading, by |-> "none",
                 branch |-> "none", issued |-> <<>>, callbacks |-> 0]
    /\ fault = NoFault

Init ==
    now = 0 /\ CovInit /\ SocketInit /\ RequestInit /\ CacheInit /\ ApiInit /\ HostInit

SpecCovering == Init /\ [][CovNext]_vars

IdleInit ==
    now = 0 /\ CovIdle /\ SocketInit /\ RequestInit /\ CacheInit /\ ApiInit /\ HostInit

SpecSocket == IdleInit /\ [][SocketNext]_vars

\* timers that are due do run, and the clock does advance
SpecSocketFair ==
    IdleInit /\ [][SocketNext]_vars
        /\ WF_vars(ReconnectTimer) /\ WF_vars(SocketTick)

SpecRequests == IdleInit /\ [][RequestNext]_vars

SpecCache == IdleInit /\ [][CacheNext]_vars

\* timers that are due do run, and the clock does advance
SpecCacheFair ==
    IdleInit /\ [][CacheNext]_vars /\ WF_vars(CacheTimer) /\ WF_vars(CacheTick)

\* the device status model starts with the connection open: open(url) was
\* called, the transport opened and onopen() ran
StatusInit ==
    /\ now = 0 /\ CovIdle /\ RequestInit /\ CacheInit /\ ApiInit /\ HostInit
    /\ url = CHOOSE u \in Urls : TRUE
    /\ instance = [url |-> url, listeners |-> TRUE, state |-> "open"]
    /\ socketOpen = TRUE
    /\ pendingReconnect = FALSE
    /\ pingInterval = FALSE
    /\ livePings = 0
    /\ loginPending = TRUE
    /\ wsTimers = <<>>
    /\ signals = 0
    /\ wsOp = [op |-> "open", code |-> "none", delivered |-> FALSE,
               scheduled |-> 0, opened |-> "none", onclose |-> NoArg,
               onerror |-> FALSE, set |-> 0, hbInterval |-> 0, period |-> 0,
               cleared |-> FALSE]

SpecStatus == StatusInit /\ [][StatusNext]_vars

SpecUpdate == StatusInit /\ [][UpdateNext]_vars

SpecHost == IdleInit /\ [][HostNext]_vars

\* The motion model: the covering with bottom margins in its calibration,
\* on a clock fine enough to stop a run between two whole percentage points.
\* configureAccessory: relay_up is either channel, durationUp and
\* durationDown differ, the margins are 0 or all but one second of the
\* travel time
MotionContexts ==
    { [c EXCEPT !.switchUp = up, !.switchDown = 1 - up,
                !.durationBMU = IF m THEN c.durationUp - 1 ELSE 0,
                !.durationBMD = IF m THEN c.durationDown - 1 ELSE 0] :
        c \in {i \in InitContexts :
                  /\ {i.durationUp, i.durationDown} = {1, MaxDuration}
                  /\ i.fullOverdrive \in {0, MaxOverdrive}
                  /\ i.durationBMU = 0 /\ i.durationBMD = 0},
        m \in BOOLEAN, up \in Channels }

MotionInit ==
    /\ now = 0 /\ SocketInit /\ RequestInit /\ CacheInit /\ ApiInit /\ HostInit
    /\ context \in MotionContexts
    /\ switches \in Readings   \* the relay states the device list reported
    /\ switches = AllOff \/ (context.durationBMU = 0 /\ context.fullOverdrive = 0)
    /\ timers = <<>>
    /\ events = 0
    /\ lastOp = [op |-> "init", pos |-> -1, sw |-> NoReading, by |-> "none",
                 branch |-> "none", issued |-> <<>>, callbacks |-> 0]
    /\ fault = NoFault

\* the clock of the motion model: up to MaxFineTime it advances to the next
\* multiple of FineStep or to the timer that is due sooner; afterwards it
\* advances from timer to timer, until none is left
MotionTick ==
    /\ \A i \in 1..Len(timers) : timers[i].due > now
    /\ LET dues == {timers[i].due : i \in 1..Len(timers)}
           first == CHOOSE d \in dues : \A e \in dues : d <= e
           next == (now \div FineStep + 1) * FineStep
       IN  IF next <= MaxFineTime
           THEN now' = IF timers # <<>> /\ first < next THEN first ELSE next
           ELSE timers # <<>> /\ now' = first
    /\ lastOp' = [op |-> "tick", pos |-> -1, sw |-> NoReading, by |-> "none",
                  branch |-> "none", issued |-> <<>>, callbacks |-> 0]
    /\ UNCHANGED <<context, switches, timers, events, fault, sockVars, reqVars,
                   cacheVars, apiVars, hostVars>>

MotionNext ==
    \/ /\ now <= MaxFineTime \/ timers = <<>>
       /\ \/ \E pos \in Targets : SetTargetPosition(pos)
          \/ \E sw \in Readings : UpdateBlindStateCharacteristic(sw)
    \/ RunStartTimer
    \/ PollTimer
    \/ FinalTimer
    \/ MotionTick

SpecMotion == MotionInit /\ [][MotionNext]_vars

\* timers that are due do run, and the clock reaches the next timer
SpecMotionFair ==
    /\ SpecMotion
    /\ WF_vars(RunStartTimer) /\ WF_vars(PollTimer) /\ WF_vars(FinalTimer)
    /\ WF_vars(MotionTick)

----------------------------------------------------------------------------
(* Relay patches of the covering on their way to the connection            *)
(* The covering's handlers hand payload.params to updateDeviceStatus; its   *)
(* field switches is the array held in devicesFromApi, not a copy. The      *)
(* client pauses for a random 200 to 400 ms and then calls sendRequest,     *)
(* where packMessage serializes the payload: the message carries what the   *)
(* array holds at that moment. The connection stays open.                   *)

\* updateDeviceStatus(deviceId, params), up to the pause, for each array the
\* running handler issued; delays[i] is the pause of the i-th call
issuePatches(ps, issued, delays, timestamp) ==
    ps \o [i \in 1..Len(issued) |->
              [issued |-> issued[i], due |-> timestamp + delays[i],
               sent |-> NoReading, order |-> 0]]

\* a pause that has ended: earlier calls whose pause ends at the same
\* instant go first
CanSend(k) ==
    /\ updates[k].sent = NoReading
    /\ updates[k].due = now
    /\ \A j \in 1..(k - 1) : ~(updates[j].sent = NoReading /\ updates[j].due = now)

\* a covering at rest with its relays off, the connection open
RelayInit ==
    /\ now = 0 /\ RequestInit /\ CacheInit /\ ApiInit /\ HostInit
    /\ context \in MotionContexts
    /\ switches = AllOff
    /\ timers = <<>>
    /\ events = 0
    /\ lastOp = [op |-> "init", pos |-> -1, sw |-> NoReading, by |-> "none",
                 branch |-> "none", issued |-> <<>>, callbacks |-> 0]
    /\ fault = NoFault
    /\ url = CHOOSE u \in Urls : TRUE
    /\ instance = [url |-> url, listeners |-> TRUE, state |-> "open"]
    /\ socketOpen = TRUE
    /\ pendingReconnect = FALSE
    /\ pingInterval = FALSE
    /\ livePings = 0
    /\ loginPending = FALSE
    /\ wsTimers = <<>>
    /\ signals = 0
    /\ wsOp = [op |-> "open", code |-> "none", delivered |-> FALSE,
               scheduled |-> 0, opened |-> "none", onclose |-> NoArg,
               onerror |-> FALSE, set |-> 0, hbInterval |-> 0, period |-> 0,
               cleared |-> FALSE]

\* setTargetPosition called by the host
RelaySetTargetPosition(pos) ==
    /\ events < MaxEvents
    /\ events' = events + 1
    /\ now' = now
    /\ LET w == setTargetPosition(World, pos, now)
       IN  /\ Commit(w, "setTargetPosition", pos, NoReading, "none")
           /\ \E delays \in [1..Len(w.issued) -> Delays] :
                 updates' = issuePatches(updates, w.issued, delays, now)
    /\ UNCHANGED <<sockVars, reqVars, cacheVars, apiCalls, apiTimers, apiOp, hostVars>>

\* a deferred step of the covering: the start of a run, a tick of the
\* completion poll, or the end of the stop routine
RelayTimer ==
    \E i \in 1..Len(timers) :
        /\ CanFire(i)
        /\ LET kind == timers[i].kind
               w == IF kind = "start" THEN runStartStep(Without(i), now)
                    ELSE IF kind = "poll" THEN pollStep(Without(i), now)
                    ELSE finalStep(Without(i))
           IN  /\ Commit(w, IF kind = "start" THEN "runStart" ELSE kind, -1,
                         NoReading, IF kind = "final" THEN timers[i].by ELSE "none")
               /\ \E delays \in [1..Len(w.issued) -> Delays] :
                     updates' = issuePatches(updates, w.issued, delays, now)
        /\ UNCHANGED <<now, events, sockVars, reqVars, cacheVars, apiCalls,
                       apiTimers, apiOp, hostVars>>

\* updateDeviceStatus after the pause: the request is sent
RelaySend ==
    \E k \in 1..Len(updates) :
        /\ CanSend(k)
        /\ socketOpen
        /\ updates' = [updates EXCEPT
              ![k].sent = switches,
              ![k].order = 1 + Cardinality({j \in 1..Len(updates) :
                                               updates[j].sent # NoReading})]
        /\ UNCHANGED <<now, covVars, sockVars, reqVars, cacheVars, apiCalls,
                       apiTimers, apiOp, hostVars>>

\* the clock moves to the next timer or end of pause
RelayTick ==
    LET dues == {timers[i].due : i \in 1..Len(timers)}
                  \cup {updates[k].due : k \in {j \in 1..Len(updates) :
                                                   updates[j].sent = NoReading}}
    IN  /\ dues # {}
        /\ \A d \in dues : d > now
        /\ now' = CHOOSE d \in dues : \A e \in dues : d <= e
        /\ UNCHANGED <<covVars, sockVars, reqVars, cacheVars, apiVars, hostVars>>

RelayNext ==
    \/ \E pos \in Targets : RelaySetTargetPosition(pos)
    \/ RelayTimer
    \/ RelaySend
    \/ RelayTick

SpecRelay == RelayInit /\ [][RelayNext]_vars

Spec == SpecCovering
----------------------------------------------------------------------------
(* Properties of the motion controller *)

Moving(ctx) == ctx.currentPositionState # Stopped

Opposite(state) == IF state = MovingUp THEN MovingDown ELSE MovingUp

\* the relay patch that drives the covering in the given direction
PatchFor(ctx, state) ==
    [c \in Channels |->
        IF (c = ctx.switchUp /\ state = MovingUp)
             \/ (c = ctx.switchDown /\ state = MovingDown)
        THEN "on" ELSE "off"]

\* pos lies behind the estimated position, relative to the direction of travel
Behind(ctx, pos, timestamp) ==
    \/ ctx.currentPositionState = MovingUp /\ pos < actualPosition(ctx, timestamp)
    \/ ctx.currentPositionState = MovingDown /\ pos > actualPosition(ctx, timestamp)

\* C1: whenever currentPositionState is Stopped, lastPosition equals
\* currentTargetPosition, in every reachable state (also between the stop
\* routine setting the state and its deferred step).
C1_StoppedIsSettled ==
    context.currentPositionState = Stopped
        => context.lastPosition = context.currentTargetPosition

\* C2: lastPosition and currentTargetPosition are within 0..100 in every
\* reachable state, for every calibration.
C2_PositionsInRange ==
    /\ context.lastPosition \in 0..100
    /\ context.currentTargetPosition \in 0..100

\* C3: while moving, setTargetPosition(pos) with pos behind the estimated
\* position reverses: the state flips, a patch energising the opposite relay
\* is issued, and lastPosition becomes the position estimated at that instant.
C3_BehindReverses ==
    [][ (/\ lastOp'.op = "setTargetPosition"
         /\ Moving(context)
         /\ Behind(context, lastOp'.pos, now))
        => (/\ context'.currentPositionState = Opposite(context.currentPositionState)
            /\ context'.lastPosition = actualPosition(context, now)
            /\ lastOp'.issued =
                 <<PatchFor(context, Opposite(context.currentPositionState))>>) ]_vars

\* C4: while moving, setTargetPosition(pos) whose computed diff is positive
\* only adds diffTime to targetTimestamp and sets currentTargetPosition to pos;
\* state, lastPosition and startTimestamp stay as they are, no relay command
\* is issued and no timer is armed.
C4_ExtendOnly ==
    [][ (/\ lastOp'.op = "setTargetPosition"
         /\ Moving(context)
         /\ movingDiff(context, lastOp'.pos, now) > 0)
        => (/\ context' = [context EXCEPT
                  !.targetTimestamp = @ + movingDiffTime(context, lastOp'.pos),
                  !.currentTargetPosition = lastOp'.pos]
            /\ lastOp'.issued = <<>>
            /\ UNCHANGED <<switches, timers>>) ]_vars

\* C4 witness: a same-direction target change was just handled while moving
C4_Witness ==
    /\ lastOp.op = "setTargetPosition"
    /\ lastOp.branch = "extend"
    /\ Moving(context)
    /\ context.currentTargetPosition = lastOp.pos
    /\ context.startTimestamp < now

\* C5: when the stop routine started by the completion poll has completed,
\* the covering is Stopped and lastPosition equals currentTargetPosition.
C5_SettledAfterPoll ==
    (lastOp.op = "final" /\ lastOp.by = "poll")
        => (/\ context.currentPositionState = Stopped
            /\ context.lastPosition = context.currentTargetPosition)

\* C5 witness: the stop routine of a poll completed after the target was
\* changed during the run
C5_Witness ==
    /\ lastOp.op = "final"
    /\ lastOp.by = "poll"
    /\ events >= 2
    /\ context.lastPosition \notin {0, 100}
    /\ lastOp.issued = <<AllOff>>

\* C6: after a reading with both relays on has been handled, whatever the
\* tracked state was, the covering ends up Stopped and exactly one
\* both-relays-off command has been issued for it (judged once no timer of
\* the covering is pending any more).
C6_FaultStopsOnce ==
    (fault.active /\ timers = <<>>)
        => (context.currentPositionState = Stopped /\ fault.offs = 1)
----------------------------------------------------------------------------
(* Properties of the websocket client *)

\* a signal that calls for a reconnect: abnormal close or connection refused
AbnormalSignal(op) ==
    \/ op.op = "close" /\ op.code # CLOSE_NORMAL
    \/ op.op = "error" /\ op.code = "ECONNREFUSED"

\* the reconnect timer has just re-invoked open with the remembered url,
\* autoReconnectInterval after it was armed
Reopened ==
    /\ wsOp.op = "reconnectTimer"
    /\ wsOp.opened = url
    /\ instance = [url |-> url, listeners |-> TRUE, state |-> "connecting"]
    /\ now = wsOp.set + autoReconnectInterval

\* C7: abnormal-close / connection-refused signals that arrive while a
\* reconnect timer is pending arm no further timer and open nothing: at most
\* one reconnect timer is pending at any time, and when it fires open(url) is
\* invoked once.
C7_OneReconnect ==
    /\ [](Len(wsTimers) <= 1)
    /\ [][ (AbnormalSignal(wsOp') /\ wsTimers # <<>>)
             => (wsTimers' = wsTimers /\ wsOp'.opened = "none") ]_vars
    /\ [][ wsOp'.op = "reconnectTimer"
             => (wsTimers' = <<>> /\ wsOp'.opened = url /\ ~pendingReconnect') ]_vars

\* C7 witness: a second signal arrived while the reconnect timer was pending
C7_Witness ==
    /\ AbnormalSignal(wsOp)
    /\ signals >= 2
    /\ wsOp.scheduled = 0
    /\ pendingReconnect
    /\ Len(wsTimers) = 1
    /\ wsTimers[1].due > now

\* C8: every abnormal close and every connection-refused error is eventually
\* followed by open being re-invoked with the remembered url, at the fixed
\* reconnect delay after the timer was armed, however many attempts failed
\* before.
C8_EventuallyReopened == AbnormalSignal(wsOp) ~> Reopened

\* C8 witness: open was re-invoked after an earlier reconnect attempt failed
C8_Witness ==
    /\ Reopened
    /\ now >= 2 * autoReconnectInterval
    /\ signals >= 2

C10_ResponseResolvesItsRequest ==
    [][ \A r1, r2 \in Callers :
          (/\ r1 # r2
           /\ calls[r1].state = "waiting"
           /\ calls[r2].state = "waiting"
           /\ calls[r1].requestId # calls[r2].requestId
           /\ reqOp'.op = "response"
           /\ reqOp'.sequence = calls[r2].requestId)
          => (/\ calls'[r2].state = "resolved"
              /\ calls'[r2].by = calls[r2].requestId
              /\ calls'[r1].state = "waiting"
              /\ calls'[r1].by = Absent) ]_vars

\* C10 witness: the later of two requests in flight was answered first
C10_Witness ==
    /\ reqOp.op = "response"
    /\ \E r1, r2 \in Callers :
          /\ calls[r1].state = "waiting"
          /\ calls[r2].state = "resolved"
          /\ calls[r2].by = calls[r2].requestId
          /\ reqOp.sequence = calls[r2].requestId
          /\ calls[r1].requestId < calls[r2].requestId

\* C11: every request that leaves is tagged with a sequence value strictly
\* greater than the value of every request sent before it, also when both
\* leave within the same millisecond.
C11_SequenceStrictlyIncreasing ==
    [][ reqOp'.op = "send"
          => \A c \in Callers :
                calls[c].requestId # Absent
                   => reqOp'.sequence > calls[c].requestId ]_vars

----------------------------------------------------------------------------
(* Properties of the cache *)

\* C12: when a key is set again before its cacheDuration has elapsed, one
\* timer stays armed for it, the one of the second call; the key holds the
\* second value for as long as that timer is armed; the only expiry event is
\* emitted when that timer runs, cacheDuration after the second call; and
\* unless the key is set again or deleted first, that event does come.
C12_ResetExpiresOnce ==
    /\ [](\A k \in Keys : Cardinality({t \in cacheTimers : t.key = k}) <= 1)
    /\ [](\A t \in cacheTimers : t.id = timerMap[t.key] /\ cacheMap[t.key] = t.value)
    /\ [][ (cacheOp'.op = "set" /\ cacheOp'.reset)
             => \E t \in cacheTimers' :
                   /\ t.key = cacheOp'.key
                   /\ t.id = timerMap'[t.key]
                   /\ t.due = cacheOp'.due
                   /\ t.value = cacheOp'.value ]_vars
    /\ [][ cacheOp'.emitted # Undefined
             => (/\ cacheOp'.op = "timer"
                 /\ cacheOp'.fired = timerMap[cacheOp'.key]
                 /\ cacheOp'.due = now') ]_vars
    /\ \A k \in Keys : \A i \in 2..MaxCacheSets :
          (cacheOp.op = "set" /\ cacheOp.reset /\ cacheOp.key = k /\ timerMap[k] = i)
             ~> \/ cacheOp.op = "timer" /\ cacheOp.fired = i /\ cacheOp.emitted = k
                \/ timerMap[k] # i
                \/ cacheOp.op = "delete" /\ cacheOp.key = k

\* C12 witness: the timer of a second set ran and emitted the expiry event
C12_Witness ==
    /\ cacheOp.op = "timer"
    /\ cacheOp.reset
    /\ cacheOp.emitted = cacheOp.key
    /\ cacheOp.fired = timerMap[cacheOp.key]
    /\ cacheOp.due = now
    /\ cacheMap[cacheOp.key] = Undefined

\* C13: get of a key that was never set returns undefined, and get of a key
\* whose entry has neither expired nor been deleted returns the value of the
\* set that stored it, whatever was done to other keys in between.
C13_GetReturnsValue ==
    [][ cacheOp'.op = "get"
          => (/\ timerMap[cacheOp'.key] = 0 => cacheOp'.value = Undefined
              /\ \A t \in cacheTimers :
                    (t.key = cacheOp'.key /\ t.id = timerMap[t.key])
                       => cacheOp'.value = t.value) ]_vars

\* C13 witness: a get returned the value of a key after another key was set,
\* expired or deleted
C13_Witness ==
    /\ cacheOp.op = "get"
    /\ cacheOp.value \in Values
    /\ \E k \in Keys : k # cacheOp.key /\ timerMap[k] # 0 /\ cacheMap[k] = Undefined

\* C14: delete leaves the key without value and without timer; a get of a key
\* that holds no armed timer returns undefined; and an expiry event is emitted
\* only by the timer of the entry that is held, at the step that removes it.
C14_DeleteIsSilent ==
    /\ [][ cacheOp'.op = "delete"
             => (/\ cacheMap'[cacheOp'.key] = Undefined
                 /\ ~ \E t \in cacheTimers' : t.key = cacheOp'.key) ]_vars
    /\ [][ (cacheOp'.op = "get" /\ ~Live(cacheTimers, timerMap, cacheOp'.key))
             => cacheOp'.value = Undefined ]_vars
    /\ [][ cacheOp'.emitted # Undefined
             => (/\ cacheOp'.op = "timer"
                 /\ cacheMap[cacheOp'.key] # Undefined
                 /\ cacheMap'[cacheOp'.key] = Undefined
                 /\ Live(cacheTimers, timerMap, cacheOp'.key)) ]_vars

\* C14 witness: a get after the delete of a key that had been set found
\* nothing, and no timer is left for the key
C14_Witness ==
    /\ cacheOp.op = "get"
    /\ cacheOp.value = Undefined
    /\ timerMap[cacheOp.key] # 0
    /\ timerCount = 1
    /\ cacheTimers = {}
    /\ now = 0

----------------------------------------------------------------------------
(* Properties of getDeviceStatus and updateDeviceStatus *)

\* C15: a getDeviceStatus for a device whose status the cache holds resolves
\* at once with the cached status; it starts no pause and sends no request,
\* then or later.
C15_CacheHitSendsNothing ==
    /\ [][ \A c \in ApiCallers :
             (/\ apiOp'.op = "getDeviceStatus"
              /\ apiOp'.call = c
              /\ apiCalls[c].phase = "idle"
              /\ cacheMap[apiCalls'[c].deviceId] # Undefined)
             => (/\ apiCalls'[c].phase = "resolved"
                 /\ apiCalls'[c].outcome = cacheMap[apiCalls'[c].deviceId]
                 /\ apiCalls'[c].settles = 1
                 /\ apiCalls'[c].sent = 0
                 /\ apiTimers' = apiTimers) ]_vars
    /\ [](\A c \in ApiCallers :
             apiCalls[c].hit => (/\ apiCalls[c].sent = 0
                                 /\ apiCalls[c].phase = "resolved"
                                 /\ apiCalls[c].settles = 1))

\* C15 witness: a call was answered from the cache that an earlier call filled
C15_Witness ==
    \E c, d \in ApiCallers :
        /\ apiOp.op = "getDeviceStatus"
        /\ apiOp.call = c
        /\ apiCalls[c].hit
        /\ apiCalls[c].outcome \in Values
        /\ apiCalls[d].kind = "get"
        /\ apiCalls[d].deviceId = apiCalls[c].deviceId
        /\ apiCalls[d].sent = 1
        /\ apiCalls[d].outcome = apiCalls[c].outcome

\* a getDeviceStatus that missed the cache sends its one request after the
\* pause, and when the request is answered the answer is stored under the
\* device id and the promise resolves with it
C16_MissQueriesOnce ==
    /\ [](\A c \in ApiCallers :
             (apiCalls[c].kind = "get" /\ ~apiCalls[c].hit)
                => (/\ apiCalls[c].sent <= 1
                    /\ apiCalls[c].settles <= 1
                    /\ apiCalls[c].phase \in {"waiting", "resolved", "rejected"}
                          => apiCalls[c].sent = 1))
    /\ [][ \A c \in ApiCallers :
             (/\ apiOp'.op = "response"
              /\ apiOp'.call = c
              /\ apiCalls[c].kind = "get"
              /\ apiCalls[c].phase = "waiting")
             => (/\ apiCalls'[c].phase = "resolved"
                 /\ apiCalls'[c].outcome \in Values
                 /\ cacheMap'[apiCalls[c].deviceId] = apiCalls'[c].outcome) ]_vars

\* the step at which the request of the get call c failed
C16_GetFailed(c) ==
    /\ apiOp'.op \in {"failure", "afterPause"}
    /\ apiOp'.call = c
    /\ apiCalls[c].kind = "get"
    /\ apiCalls[c].phase # "rejected"
    /\ apiCalls'[c].phase = "rejected"

C17_RetryOnce ==
    /\ [][ \A c \in ApiCallers :
             (/\ apiOp'.op = "afterPause"
              /\ apiOp'.call = c
              /\ apiCalls[c].kind = "update"
              /\ apiCalls[c].phase = "sleeping"
              /\ ~socketOpen)
             => (/\ apiCalls'[c].phase = "retrying"
                 /\ apiCalls'[c].settles = 0
                 /\ apiCalls'[c].sent = 0
                 /\ \E t \in apiTimers' :
                       /\ t.call = c /\ t.kind = "retry" /\ t.due = now + RetryDelay
                       /\ \A t2 \in apiTimers' : t2.call = c => t2 = t) ]_vars
    /\ [][ \A c \in ApiCallers :
             (apiOp'.op = "retry" /\ apiOp'.call = c /\ apiCalls[c].phase = "retrying")
             => (/\ apiCalls'[c].sent = 1
                 /\ now = apiCalls[c].retryDue
                 /\ apiCalls'[c].phase = (IF instance.state = "open"
                                          THEN "waiting" ELSE "rejected")
                 /\ ~ \E t \in apiTimers' : t.call = c) ]_vars
    /\ [](\A c \in ApiCallers :
             apiCalls[c].kind = "update"
                => (/\ apiCalls[c].sent <= 1
                    /\ apiCalls[c].settles <= 1
                    /\ apiCalls[c].settles = 1 => apiCalls[c].sent = 1))

\* C17 witness: an update that found the socket closed was sent by its retry
\* timer, after the connection had come back, and was answered
C17_Witness ==
    \E c \in ApiCallers :
        /\ apiCalls[c].kind = "update"
        /\ apiCalls[c].retryDue # 0
        /\ now >= apiCalls[c].retryDue
        /\ apiCalls[c].phase = "resolved"
        /\ apiCalls[c].sent = 1
        /\ apiCalls[c].settles = 1

----------------------------------------------------------------------------
(* Properties of the handlers of the platform *)

\* C19: a setTargetPosition call, which builds a relay patch with
\* prepareBlindSwitchesPayload and sends it, leaves the relay array that the
\* device registry holds for the device as it was.
C19_RegistryUntouched ==
    [][ (lastOp'.op = "setTargetPosition" /\ events' = events + 1)
           => switches' = switches ]_vars

\* number of callbacks deferred by the start branch of setTargetPosition
C18_StartTimers(ts) == Cardinality({i \in 1..Len(ts) : ts[i].kind = "start"})

C20_PushIsSilent ==
    [][ (hostOp'.op = "updatePowerStateCharacteristic" /\ hostOp' # hostOp)
           => (hostOp'.setHandler = 0 /\ hostOp'.sent = 0) ]_vars

\* C23: a key never has more than one deletion timer armed, whatever the
\* order of set, delete and timer callbacks, and a set of a key disarms the
\* timer the key had before it arms the new one.
C23_OneTimerPerKey ==
    /\ [](\A k \in Keys : \A t1, t2 \in cacheTimers :
             (t1.key = k /\ t2.key = k) => t1 = t2)
    /\ [][ cacheOp'.op = "set"
             => (/\ \A t \in cacheTimers :
                       t.key = cacheOp'.key => t \notin cacheTimers'
                 /\ \E t \in cacheTimers' \ cacheTimers :
                       /\ t.key = cacheOp'.key
                       /\ t.id = timerCount'
                       /\ \A u \in cacheTimers' :
                             u.key = cacheOp'.key => u = t) ]_vars

\* C23 witness: the last set the bound allows was of a key whose timer was
\* armed; the key has the timer of that set only, and the timer of another
\* key is still armed
C23_Witness ==
    /\ cacheOp.op = "set"
    /\ cacheOp.reset
    /\ timerCount = MaxCacheSets
    /\ {t.id : t \in {u \in cacheTimers : u.key = cacheOp.key}} = {timerCount}
    /\ \E k \in Keys : k # cacheOp.key /\ Live(cacheTimers, timerMap, k)

-----------------------------------------------------------------------------
(* Properties of the login request, the heartbeat and inbound messages *)

\* C24: for every request that has left, the login request included, the
\* sequence field of the message on the wire equals the key under which the
\* request's pending promise is kept.
C24_WireSequenceIsKey ==
    \A c \in Callers :
        calls[c].state # "idle" => calls[c].wire = calls[c].requestId

\* C26: an inbound 'pong' is handed on without being given to JSON.parse,
\* raises no error and resolves no pending request; every other inbound
\* message is given to JSON.parse.
C26_PongPassesUnparsed ==
    /\ [][ reqOp'.op = "pong"
             => (/\ ~reqOp'.parsed
                 /\ ~reqOp'.threw
                 /\ pending' = pending
                 /\ calls' = calls) ]_vars
    /\ [][ reqOp'.op \in {"response", "push", "garbled"} => reqOp'.parsed ]_vars

\* C26 witness: a 'pong' arrived while two requests were waiting for their
\* responses, and both still wait
C26_Witness ==
    /\ reqOp.op = "pong"
    /\ ~reqOp.parsed
    /\ ~reqOp.threw
    /\ \E r1, r2 \in Callers :
          /\ r1 # r2
          /\ calls[r1].state = "waiting"
          /\ calls[r2].state = "waiting"
          /\ {calls[r1].requestId, calls[r2].requestId} \subseteq DOMAIN pending

\* C25: the arrival of the login response starts a heartbeat exactly when the
\* response carries a heartbeat interval, with a period of (interval + 7)
\* seconds; when the response carries none, no heartbeat is started.
C25_HeartbeatIffInterval ==
    [][ (wsOp'.op = "loginResponse" /\ loginPending /\ ~loginPending')
          => IF wsOp'.hbInterval # 0
             THEN /\ pingInterval'
                  /\ livePings' = livePings + 1
                  /\ wsOp'.period = (wsOp'.hbInterval + 7) * 1000
             ELSE /\ wsOp'.period = 0
                  /\ livePings' = livePings ]_vars

-----------------------------------------------------------------------------
(* Properties of the motion model *)

\* C21: for every reading of the up relay and the down relay, getBlindState
\* returns the state 2*up + down stands for: 0 is Stopped, 1 is MovingDown,
\* 2 is MovingUp and 3 is Error. The handler of a pushed reading acts on
\* that state: with both relays on it stops the covering where it is, and a
\* reading of the state the covering already has changes nothing.
C21_BlindStateOfReading ==
    [][ lastOp'.op = "updateBlindStateCharacteristic" /\ events' = events + 1
          => LET up == IF lastOp'.sw[context.switchUp] = "on" THEN 1 ELSE 0
                 down == IF lastOp'.sw[context.switchDown] = "on" THEN 1 ELSE 0
                 code == 2 * up + down
                 state == getBlindState(lastOp'.sw, context)
             IN  /\ code = 0 => state = Stopped
                 /\ code = 1 => state = MovingDown
                 /\ code = 2 => state = MovingUp
                 /\ code = 3 => state = Error
                 /\ fault'.active <=> code = 3
                 /\ (code = 1 /\ context.currentPositionState = MovingDown)
                       => context' = context
                 /\ (code = 2 /\ context.currentPositionState = MovingUp)
                       => context' = context
                 /\ (code = 2 /\ context.currentPositionState = Stopped
                             /\ context.lastPosition < 100)
                       => context'.currentPositionState = MovingUp
                 /\ (code = 1 /\ context.currentPositionState = Stopped
                             /\ context.lastPosition > 0)
                       => context'.currentPositionState = MovingDown ]_vars

\* C21 witness: the relay wired as channel 1 is the up relay, and a reading
\* with only that relay on was taken for MovingUp while the covering stood
C21_Witness ==
    /\ lastOp.op = "updateBlindStateCharacteristic"
    /\ context.switchUp = 1
    /\ lastOp.sw = [c \in Channels |-> IF c = 1 THEN "on" ELSE "off"]
    /\ getBlindState(lastOp.sw, context) = MovingUp
    /\ context.currentPositionState = MovingUp
    /\ lastOp.branch = "start"

\* r is num / den rounded to the nearest integer, halves upwards (Math.round)
C22_Nearest(r, num, den) ==
    2 * den * r <= 2 * num + den /\ 2 * num + den < 2 * den * (r + 1)

\* the position the claim gives for context ctx at time timestamp is r
C22_Estimate(ctx, timestamp, r) ==
    LET elapsed == timestamp - ctx.startTimestamp
    IN  /\ ctx.currentPositionState = Stopped => r = ctx.lastPosition
        /\ ctx.currentPositionState = MovingDown
              => C22_Nearest(r, ctx.lastPosition * ctx.percentDurationDown - elapsed,
                             ctx.percentDurationDown)
        /\ ctx.currentPositionState = MovingUp
              => C22_Nearest(r, ctx.lastPosition * ctx.percentDurationUp + elapsed,
                             ctx.percentDurationUp)

\* C22: actualPosition is lastPosition while Stopped, lastPosition minus the
\* time elapsed since startTimestamp over percentDurationDown while
\* MovingDown, and lastPosition plus that time over percentDurationUp while
\* MovingUp, rounded to the nearest integer. It is the position at which a
\* pushed stop or fault reading stops the covering, and the position from
\* which a reversed run departs.
C22_EstimatedPosition ==
    /\ [][ (/\ lastOp'.op = "updateBlindStateCharacteristic"
            /\ events' = events + 1
            /\ \/ getBlindState(lastOp'.sw, context) = Error
               \/ /\ getBlindState(lastOp'.sw, context) = Stopped
                  /\ context.currentPositionState # Stopped)
           => C22_Estimate(context, now, context'.currentTargetPosition) ]_vars
    /\ [][ (lastOp'.branch = "revert" /\ events' = events + 1)
           => C22_Estimate(context, now, context'.lastPosition) ]_vars

\* C22 witness: a covering moving down was stopped by a push when it was
\* halfway between two percentage points, and the higher one was taken
C22_Witness ==
    /\ lastOp.op = "updateBlindStateCharacteristic"
    /\ getBlindState(lastOp.sw, context) = Stopped
    /\ context.currentPositionState = MovingDown
    /\ context.targetTimestamp = now + StopDelay
    /\ 2 * ((now - context.startTimestamp) % context.percentDurationDown)
          = context.percentDurationDown
    /\ 2 * context.percentDurationDown * context.currentTargetPosition
          = 2 * (context.lastPosition * context.percentDurationDown
                   - (now - context.startTimestamp))
            + context.percentDurationDown

\* C27: setTargetPosition(pos) with pos equal to lastPosition while the
\* covering is Stopped, or with pos equal to currentTargetPosition while it
\* moves, changes no field of the motion state, arms no timer and sends no
\* relay command.
C27_SameTargetIsNoOp ==
    [][ (/\ lastOp'.op = "setTargetPosition"
         /\ events' = events + 1
         /\ \/ /\ context.currentPositionState = Stopped
               /\ lastOp'.pos = context.lastPosition
            \/ /\ context.currentPositionState # Stopped
               /\ lastOp'.pos = context.currentTargetPosition)
          => (/\ context' = context
              /\ switches' = switches
              /\ timers' = timers
              /\ lastOp'.issued = <<>>
              /\ lastOp'.callbacks = 1) ]_vars

\* C27 witness: the target of a run under way was requested again, after the
\* relay command of the run had been sent
C27_Witness ==
    /\ lastOp.op = "setTargetPosition"
    /\ lastOp.pos = context.currentTargetPosition
    /\ context.currentPositionState # Stopped
    /\ context.startTimestamp < now
    /\ lastOp.branch = "none"
    /\ lastOp.issued = <<>>
    /\ \E i \in 1..Len(timers) : timers[i].kind = "poll"

\* the duration, in milliseconds, of a run from ctx.lastPosition to pos: the
\* travel at the rate of the direction net of its margin, the margin of the
\* direction when withMargin holds, and the overdrive for a target 0 or 100
C28_Duration(ctx, pos, withMargin) ==
    LET up == pos > ctx.lastPosition
        travel == IF up THEN pos - ctx.lastPosition ELSE ctx.lastPosition - pos
        margin == IF up THEN ctx.durationBMU ELSE ctx.durationBMD
        net == (IF up THEN ctx.durationUp ELSE ctx.durationDown) - margin
    IN  travel * net * 10
          + (IF withMargin THEN margin * 1000 ELSE 0)
          + (IF pos \in {0, 100} THEN ctx.fullOverdrive * 1000 ELSE 0)

\* C28 as stated: a run started from Stopped lasts the travel times the
\* per-percent duration of its direction, plus the bottom margin of the
\* direction only when it departs from position 0, plus fullOverdrive exactly
\* when the target is 0 or 100, and targetTimestamp - startTimestamp is that
\* duration.
C28_MarginOnDepartureFromZero ==
    [][ (lastOp'.branch = "start" /\ events' = events + 1)
          => /\ context'.startTimestamp = now
             /\ context'.targetTimestamp - context'.startTimestamp
                  = C28_Duration(context, context'.currentTargetPosition,
                                 context.lastPosition = 0) ]_vars

\* C28, amended: the bottom margin is durationBMU for a run upwards that
\* departs from position 0 and durationBMD for a run downwards that arrives
\* at position 0; the per-percent duration is that of the travel time net of
\* the margin.
C28_MarginAtBottom ==
    [][ (lastOp'.branch = "start" /\ events' = events + 1)
          => LET pos == context'.currentTargetPosition
             IN  /\ context'.startTimestamp = now
                 /\ context'.targetTimestamp - context'.startTimestamp
                      = C28_Duration(context, pos,
                                     IF pos > context.lastPosition
                                     THEN context.lastPosition = 0
                                     ELSE pos = 0) ]_vars

\* C28 witness: a run downwards to position 0 was started with a bottom
\* margin and an overdrive in the calibration, and lasts the travel, the
\* margin and the overdrive
C28_Witness ==
    /\ lastOp.branch = "start"
    /\ context.currentPositionState = MovingDown
    /\ context.currentTargetPosition = 0
    /\ context.durationBMD > 0
    /\ context.fullOverdrive > 0
    /\ context.startTimestamp = now
    /\ context.targetTimestamp - now
         = context.lastPosition * (context.durationDown - context.durationBMD) * 10
             + context.durationBMD * 1000 + context.fullOverdrive * 1000

\* the step handles a push whose reading stands for state
C29_Push(state) ==
    /\ lastOp'.op = "updateBlindStateCharacteristic"
    /\ events' = events + 1
    /\ getBlindState(lastOp'.sw, context) = state

\* C29: a push of both relays off while the covering is tracked as moving
\* makes the position estimated at that instant the currentTargetPosition;
\* no timer changes that target, and unless another event arrives the
\* covering becomes Stopped with lastPosition equal to it. While the covering
\* is tracked as Stopped, such a push changes nothing and sends no command.
C29_ExternalStop ==
    /\ [][ (C29_Push(Stopped) /\ context.currentPositionState # Stopped)
             => (/\ context'.currentTargetPosition = actualPosition(context, now)
                 /\ context'.targetTimestamp = now + StopDelay
                 /\ lastOp'.issued = <<>>) ]_vars
    /\ [][ (C29_Push(Stopped) /\ context.currentPositionState = Stopped)
             => (/\ context' = context
                 /\ switches' = switches
                 /\ timers' = timers
                 /\ lastOp'.issued = <<>>) ]_vars
    /\ [][ events' = events
             => context'.currentTargetPosition = context.currentTargetPosition ]_vars
    /\ (/\ lastOp.op = "updateBlindStateCharacteristic"
        /\ getBlindState(lastOp.sw, context) = Stopped
        /\ context.currentPositionState # Stopped
        /\ events = MaxEvents)
         ~> (/\ context.currentPositionState = Stopped
             /\ context.lastPosition = context.currentTargetPosition
             /\ timers = <<>>)

\* C29 witness: a run was stopped by a push between its start and its
\* target, and the covering has come to rest, both relays off, at the
\* position estimated when the push arrived, which no command had asked for
C29_Witness ==
    /\ lastOp.op = "final"
    /\ lastOp.by = "poll"
    /\ context.currentPositionState = Stopped
    /\ context.targetTimestamp < now
    /\ context.targetTimestamp - StopDelay > context.startTimestamp
    /\ context.targetTimestamp - StopDelay <= MaxFineTime
    /\ context.lastPosition = context.currentTargetPosition
    /\ context.lastPosition % TargetStep # 0
    /\ switches = [c \in Channels |-> "off"]
    /\ timers = <<>>

\* the step leaves the covering as the world r of a handler
C30_Leaves(r) ==
    /\ context' = r.context
    /\ switches' = r.switches
    /\ timers' = r.timers
    /\ lastOp'.issued = r.issued
    /\ lastOp'.branch = r.branch

\* the step handles a push that reports a direction; the target that goes
\* with the direction is 100 for MovingUp and 0 for MovingDown
C30_Push(state) ==
    /\ state \in {MovingUp, MovingDown}
    /\ lastOp'.op = "updateBlindStateCharacteristic"
    /\ events' = events + 1
    /\ getBlindState(lastOp'.sw, context) = state

C30_Target(state) == IF state = MovingUp THEN 100 ELSE 0

\* C30 as stated: a push that reports a direction other than the tracked
\* state has the effect of setTargetPosition with target 100 (up) or 0
\* (down); a push that reports the tracked direction changes nothing.
C30_DirectionSetsTarget ==
    [][ \A state \in {MovingUp, MovingDown} :
          C30_Push(state)
            => IF context.currentPositionState = state
               THEN C30_Leaves(World)
               ELSE C30_Leaves(setTargetPosition(World, C30_Target(state), now))
      ]_vars

\* C30, amended: the target change is issued unless currentTargetPosition
\* is that target already; then the covering is stopped by
\* setFinalBlindsState instead.
C30_DirectionSetsTargetOrStops ==
    [][ \A state \in {MovingUp, MovingDown} :
          C30_Push(state)
            => IF context.currentPositionState = state
               THEN C30_Leaves(World)
               ELSE IF context.currentTargetPosition = C30_Target(state)
               THEN /\ C30_Leaves(setFinalBlindsState(World, now, "push"))
                    /\ context'.currentPositionState = Stopped
                    /\ context'.currentTargetPosition = C30_Target(state)
               ELSE C30_Leaves(setTargetPosition(World, C30_Target(state), now))
      ]_vars

\* C30 witness: a covering tracked as moving up was reported moving down, and
\* the push reversed the run towards 0
C30_Witness ==
    /\ lastOp.op = "updateBlindStateCharacteristic"
    /\ getBlindState(lastOp.sw, context) = MovingDown
    /\ lastOp.branch = "revert"
    /\ context.currentPositionState = MovingDown
    /\ context.currentTargetPosition = 0
    /\ context.startTimestamp = now
    /\ Len(lastOp.issued) = 1

\* C33: no relay patch the motion controller builds or hands to
\* updateDeviceStatus has the up relay and the down relay on together,
\* whatever the registry held before and whatever commands and pushes came.
C33_NeverBothRelaysOn ==
    /\ [](\A i \in 1..Len(lastOp.issued) :
             ~(/\ lastOp.issued[i][context.switchUp] = "on"
               /\ lastOp.issued[i][context.switchDown] = "on"))
    /\ [][ LET built == prepareBlindSwitchesPayload(
                            [World EXCEPT !.context = context']).switches
           IN  (switches' # switches \/ lastOp'.branch \in {"start", "revert"})
                 => (/\ switches' = built
                     /\ ~(/\ built[context.switchUp] = "on"
                          /\ built[context.switchDown] = "on")) ]_vars

\* C33 witness: a run upwards was reversed, and the patch of the reversed
\* run has the down relay on and the up relay off
C33_Witness ==
    /\ lastOp.branch = "revert"
    /\ context.currentPositionState = MovingDown
    /\ Len(lastOp.issued) = 1
    /\ lastOp.issued[1][context.switchDown] = "on"
    /\ lastOp.issued[1][context.switchUp] = "off"
    /\ context.lastPosition > 0

\* C34: for each of the states MovingUp, MovingDown and Stopped and either
\* wiring of the two relays, getBlindState of the relay array that
\* prepareBlindSwitchesPayload produces for the state is that state: for
\* whatever array the registry holds, and for every array a handler builds.
C34_PayloadDecodesToState ==
    /\ [](\A state \in {MovingUp, MovingDown, Stopped} :
             getBlindState(
                 prepareBlindSwitchesPayload(
                     [World EXCEPT !.context.currentPositionState = state]).switches,
                 context) = state)
    /\ [][ (switches' # switches \/ lastOp'.branch \in {"start", "revert"})
             => getBlindState(switches', context') = context'.currentPositionState
         ]_vars

\* C34 witness: with the down relay wired as channel 0, a run downwards was
\* started; its array has channel 0 on and is read back as MovingDown
C34_Witness ==
    /\ lastOp.branch = "start"
    /\ context.switchDown = 0
    /\ context.currentPositionState = MovingDown
    /\ switches = [c \in Channels |-> IF c = 0 THEN "on" ELSE "off"]
    /\ getBlindState(switches, context) = MovingDown

\* C35: while the covering moves, a setTargetPosition(pos) call leaves
\* currentTargetPosition equal to pos when it returns, whatever pos and the
\* instant of the call, also when the computed diff is exactly 0.
C35_TargetIsKept ==
    [][ (/\ lastOp'.op = "setTargetPosition"
         /\ events' = events + 1
         /\ context.currentPositionState # Stopped)
          => context'.currentTargetPosition = lastOp'.pos ]_vars

\* C38: when setTargetPosition reverses a run, the new run lasts
\* |pos - lastPosition| times the per-percent duration of the new direction,
\* so that the position estimated at its targetTimestamp is the new target.
C38_ReversalRunLength ==
    [][ (lastOp'.branch = "revert" /\ events' = events + 1)
          => LET pos == context'.currentTargetPosition
                 rate == IF context'.currentPositionState = MovingDown
                         THEN context'.percentDurationDown
                         ELSE context'.percentDurationUp
             IN  /\ context'.targetTimestamp - context'.startTimestamp
                      = Abs(pos - context'.lastPosition) * rate
                 /\ actualPosition(context', context'.targetTimestamp) = pos
      ]_vars

\* C37: lastPosition is only assigned a position the covering is estimated
\* to have reached: the position estimated at that instant, or the target of
\* a run whose targetTimestamp has passed. In particular the deferred step
\* of the stop routine does not mark as Stopped a run that was started after
\* the routine set the state to Stopped.
C37_LastPositionIsReached ==
    /\ [][ context'.lastPosition # context.lastPosition
             => \/ context'.lastPosition = actualPosition(context, now)
                \/ /\ context'.lastPosition = context.currentTargetPosition
                   /\ context.targetTimestamp <= now ]_vars
    /\ [][ (lastOp'.op = "final" /\ Len(timers') < Len(timers))
             => context.currentPositionState = Stopped ]_vars

\* the timers of one kind that are armed
C31_Armed(ts, kind) == Cardinality({i \in 1..Len(ts) : ts[i].kind = kind})

\* C31: a completion poll whose run has been ended by another path does
\* nothing: a poll invokes the stop routine only while the covering is
\* tracked as moving, and no two completion polls are armed together, so
\* that the stop routine is invoked at most once per run.
C31_StalePollIsNoOp ==
    /\ [][ (/\ lastOp'.op = "poll"
            /\ C31_Armed(timers', "final") > C31_Armed(timers, "final"))
             => context.currentPositionState # Stopped ]_vars
    /\ [](C31_Armed(timers, "poll") <= 1)

\* C32: a covering tracked as moving up or down comes to Stopped, with no
\* timer left armed, once no further target change or push arrives and the
\* timers keep firing; this covers runs that were reversed, extended or
\* shortened.
C32_MovingComesToStop ==
    (/\ context.currentPositionState # Stopped
     /\ events = MaxEvents)
      ~> (/\ context.currentPositionState = Stopped
          /\ timers = <<>>)

\* a run reversed by the last target change is in progress
C32_Witness ==
    /\ lastOp.op = "setTargetPosition"
    /\ lastOp.branch = "revert"
    /\ events = MaxEvents
    /\ context.currentPositionState # Stopped
    /\ context.targetTimestamp > now

\* C40: two getDeviceStatus calls for the same device, both made with no
\* entry cached and neither answered yet, have sent at most one query
\* between them.
C40_ConcurrentMissesQueryOnce ==
    \A c, d \in ApiCallers :
        (/\ c # d
         /\ apiCalls[c].kind = "get" /\ apiCalls[d].kind = "get"
         /\ apiCalls[c].deviceId = apiCalls[d].deviceId
         /\ ~apiCalls[c].hit /\ ~apiCalls[d].hit
         /\ apiCalls[c].phase \in {"sleeping", "waiting"}
         /\ apiCalls[d].phase \in {"sleeping", "waiting"})
          => apiCalls[c].sent + apiCalls[d].sent <= 1

\* C39: a close of the connection, with any close code, cancels the
\* heartbeat interval, and no interval runs until a later login response
\* starts one; at no time does more than one heartbeat interval run, through
\* opens, closes and reconnects.
C39_HeartbeatStopsOnClose ==
    /\ [](livePings <= 1)
    /\ [](pingInterval <=> livePings = 1)
    /\ [][ wsOp'.op = "close" => (~pingInterval' /\ livePings' = 0) ]_vars
    /\ [][ livePings' > livePings => wsOp'.op = "loginResponse" ]_vars
    /\ [](instance.state # "open" => livePings = 0)

\* an abnormal close has cancelled a running heartbeat and armed a reconnect
C39_Witness ==
    /\ wsOp.op = "close"
    /\ wsOp.code # CLOSE_NORMAL
    /\ wsOp.cleared
    /\ wsOp.scheduled = 1
    /\ livePings = 0

\* C36: the relay patches transmitted for the covering are the patches its
\* handlers issued: they are transmitted in the order in which they were
\* issued, whatever the pause of each, and every transmitted patch carries
\* the relay states the array held when the patch was issued.
C36_TransmittedAsIssued ==
    /\ \A i, j \in 1..Len(updates) :
          (i < j /\ updates[j].sent # NoReading)
             => (/\ updates[i].sent # NoReading
                 /\ updates[i].order < updates[j].order)
    /\ \A k \in 1..Len(updates) :
          updates[k].sent # NoReading => updates[k].sent = updates[k].issued
====
